---- MODULE Spec2Model ----
(***************************************************************************)
(* Model of the genetics core of cdes-sdk-python (src/cdes/models.py):     *)
(* the GeneticsProfile aggregate (add_source, get_lineage_depth,           *)
(* get_all_parents), the genetics text parser (parse_strain_name,          *)
(* parse_genetics_line, bulk_parse_genetics, GeneticsProfile.from_simple,  *)
(* create_strain_with_genetics) and the wire format (to_dict / from_dict   *)
(* of GeneticsProfile, LineageNode, GeneticsSource, PhenotypeVariant).     *)
(* Further: the derived queries of Strain (get_genetics_string,            *)
(* get_parents), the reference data of src/cdes/reference.py with its      *)
(* module-level caches, and the lists and dicts that to_dict and from_dict *)
(* pass on by reference.                                                   *)
(*                                                                         *)
(* Conventions.  A Python str is a sequence of one-character strings, so   *)
(* that strip/split/replace/regex matching are computed and not assumed.   *)
(* An Optional value is None (the empty tuple) or Some(v) (the 1-tuple).   *)
(* Names that are only compared (source names, enum values) are strings.   *)
(* A dict is a function on its keys.  A call that raises has the outcome   *)
(* [raises |-> <exception>]; where a call may raise and returns a list or  *)
(* a number, what it returns is wrapped as [returns |-> value].            *)
(***************************************************************************)
EXTENDS Integers, Sequences, FiniteSets, TLC

VARIABLES profile, input, call, result

vars == <<profile, input, call, result>>

-----------------------------------------------------------------------------
(* Bounds of the model *)

\* latest retrieved_at timestamp a candidate source may carry
MaxTime == 2

-----------------------------------------------------------------------------
(* Optional values *)

None == <<>>

Some(v) == <<v>>

\* Python truthiness of an Optional[str] / str / list: None, "" and [] are falsy
Truthy(opt) == opt # None /\ opt[1] # <<>>

-----------------------------------------------------------------------------
(* Dataclasses *)

\* GeneticsSource(source_name, retrieved_at=..., notes=...) with the other
\* fields at their defaults
GeneticsSource(name, retrieved, note) ==
    [source_name |-> name, source_type |-> "database", source_url |-> None,
     source_id |-> None, confidence |-> "medium", retrieved_at |-> retrieved,
     verified_by |-> None, verification_date |-> None, notes |-> note]

\* GeneticsProfile(): every field at its default
GeneticsProfile ==
    [parent_1 |-> None, parent_2 |-> None,
     breeder |-> None, breeder_url |-> None, original_breeder |-> None,
     origin_year |-> None, origin_location |-> None,
     indica_pct |-> None, sativa_pct |-> None, ruderalis_pct |-> None,
     breeding_technique |-> "unknown", generation |-> None,
     stability |-> "unknown", is_feminized |-> None, is_autoflower |-> None,
     is_clone_only |-> FALSE,
     lineage |-> <<>>, lineage_text |-> None,
     additional_parents |-> <<>>,
     phenotypes |-> <<>>, selected_phenotype |-> None,
     sources |-> <<>>, primary_source |-> None, confidence |-> "unknown",
     last_verified |-> None,
     awards |-> <<>>, cup_wins |-> <<>>,
     genetic_markers |-> <<>>, chemotype |-> None,
     metadata |-> <<>>, tags |-> <<>>]

-----------------------------------------------------------------------------
(* GeneticsProfile.add_source *)

\* list.index(x): the position of the first element equal to x
index(list, x) ==
    CHOOSE i \in 1..Len(list) :
        list[i] = x /\ \A j \in 1..(i - 1) : list[j] # x

\* [s for s in self.sources if s.source_name == source.source_name]
existing_sources(self, source) ==
    SelectSeq(self.sources, LAMBDA s : s.source_name = source.source_name)

\* bug variant: a candidate with an equal timestamp also replaces
is_newer_or_equal(source, old) ==
    /\ source.retrieved_at # None
    /\ (old.retrieved_at = None \/ source.retrieved_at[1] >= old.retrieved_at[1])

\* bug variant: every dated candidate replaces, so the last dated one wins
is_newer_whenever_dated(source, old) ==
    source.retrieved_at # None

\* the "update existing if newer" test; datetime objects are always truthy,
\* so "source.retrieved_at" is true exactly when it is not None
is_newer(source, old) ==
    /\ source.retrieved_at # None
    /\ (old.retrieved_at = None \/ source.retrieved_at[1] > old.retrieved_at[1])

\* bug variant: a newer candidate is appended instead of replacing the entry
add_source_appending(self, source) ==
    LET existing == existing_sources(self, source)
    IN  IF existing = <<>> \/ is_newer(source, existing[1])
        THEN [self EXCEPT !.sources = Append(@, source)]
        ELSE self

\* bug variant: a newer candidate takes the place of the entry of its name
\* at the end of the list instead of at the entry's index
add_source_moving(self, source) ==
    LET existing == existing_sources(self, source)
    IN  IF existing = <<>>
        THEN [self EXCEPT !.sources = Append(@, source)]
        ELSE LET idx == index(self.sources, existing[1])
             IN  IF is_newer(source, existing[1])
                 THEN [self EXCEPT !.sources =
                          Append(SubSeq(@, 1, idx - 1)
                                     \o SubSeq(@, idx + 1, Len(@)), source)]
                 ELSE self

\* the profile after self.add_source(source)
add_source(self, source) ==
    LET existing == existing_sources(self, source)
    IN  IF existing = <<>>
        THEN [self EXCEPT !.sources = Append(@, source)]
        ELSE LET idx == index(self.sources, existing[1])
             IN  IF is_newer(source, existing[1])
                 THEN [self EXCEPT !.sources[idx] = source]
                 ELSE self

-----------------------------------------------------------------------------
(* The profile as a state machine: sources merged over time *)

SourceNames == {"SeedFinder", "Leafly"}

\* retrieved_at: None or a datetime; the datetimes are of one kind (all naive
\* or all aware), so that ">" orders them
Timestamps == {None} \cup {Some(t) : t \in 1..MaxTime}

Notes == {None, Some("re-import")}

Candidates ==
    {GeneticsSource(n, t, x) : n \in SourceNames, t \in Timestamps, x \in Notes}

NoCall == [op |-> "none"]

Init ==
    /\ \E p1 \in {None, Some(<<"A">>)} :
           profile = [GeneticsProfile EXCEPT !.parent_1 = p1]
    /\ input = <<>>
    /\ call = NoCall
    /\ result = None

AddSource(c) ==
    /\ profile' = add_source(profile, c)
    /\ call' = [op |-> "add_source", source |-> c, before |-> profile]
    /\ result' = None
    /\ UNCHANGED input

Next == \E c \in Candidates : AddSource(c)

Spec == Init /\ [][Next]_vars

-----------------------------------------------------------------------------
(* Claims about add_source *)

\* positions of the entries of list named like c
Matching(list, c) == {i \in 1..Len(list) : list[i].source_name = c.source_name}

\* C1: add_source(c) appends c when no entry has c's source_name; when an
\* entry e has it, e is replaced by c exactly when c.retrieved_at is present
\* and (e.retrieved_at is absent or c's is strictly later); in every other
\* case the sources list is exactly as it was.
C1_AddSourceContract ==
    call.op = "add_source" =>
        LET c == call.source
            old == call.before.sources
            new == profile.sources
            m == Matching(old, c)
        IN  IF m = {}
            THEN new = Append(old, c)
            ELSE LET i == CHOOSE k \in m : TRUE
                     e == old[i]
                     later == /\ c.retrieved_at # None
                              /\ \/ e.retrieved_at = None
                                 \/ c.retrieved_at[1] > e.retrieved_at[1]
                 IN  /\ Cardinality(m) = 1
                     /\ later => new = [old EXCEPT ![i] = c]
                     /\ ~later => new = old

\* C1 witness: a candidate carrying the same timestamp as the dated entry of
\* its name, but differing from it, was refused while another name is stored
C1_Witness ==
    /\ call.op = "add_source"
    /\ Matching(call.before.sources, call.source) # {}
    /\ LET i == CHOOSE k \in Matching(call.before.sources, call.source) : TRUE
       IN  /\ call.before.sources[i].retrieved_at = call.source.retrieved_at
           /\ call.source.retrieved_at # None
           /\ call.before.sources[i] # call.source
           /\ profile.sources = call.before.sources
           /\ Len(profile.sources) = 2

\* C2: from a sources list without duplicate names, any sequence of
\* add_source calls keeps at most one entry per distinct source_name.
C2_OneEntryPerName ==
    \A i, j \in 1..Len(profile.sources) :
        profile.sources[i].source_name = profile.sources[j].source_name => i = j

\* C2 witness: both names are stored and the last call met an existing name
\* with a newer timestamp
C2_Witness ==
    /\ call.op = "add_source"
    /\ Len(profile.sources) = Cardinality(SourceNames)
    /\ Matching(call.before.sources, call.source) # {}
    /\ profile.sources # call.before.sources

\* C20: add_source leaves every entry whose source_name differs from the
\* candidate's at its index and unchanged; an entry of the candidate's name
\* stays at the index it had, replaced or not; the list grows by exactly one
\* when the name is new and keeps its length otherwise; and no field of the
\* profile other than sources changes.
C20_AddSourceFrame ==
    call.op = "add_source" =>
        LET c == call.source
            old == call.before.sources
            new == profile.sources
            m == Matching(old, c)
        IN  /\ Len(new) = Len(old) + (IF m = {} THEN 1 ELSE 0)
            /\ \A i \in 1..Len(old) :
                  IF i \in m
                  THEN new[i] \in {old[i], c}
                  ELSE new[i] = old[i]
            /\ \A field \in DOMAIN profile \ {"sources"} :
                  profile[field] = call.before[field]

\* C20 witness: the first of two entries was replaced by a newer candidate
\* of its name, the second entry is as it was, and parent_1 is set
C20_Witness ==
    /\ call.op = "add_source"
    /\ Len(call.before.sources) = 2
    /\ Matching(call.before.sources, call.source) = {1}
    /\ profile.sources[1] = call.source
    /\ profile.sources[1] # call.before.sources[1]
    /\ profile.sources[2] = call.before.sources[2]
    /\ Len(profile.sources) = 2
    /\ profile.parent_1 # None

\* C20 witness of growth: a candidate with a new name was appended to a
\* non-empty list
C20_AppendWitness ==
    /\ call.op = "add_source"
    /\ Len(call.before.sources) = 1
    /\ Matching(call.before.sources, call.source) = {}
    /\ profile.sources = Append(call.before.sources, call.source)

-----------------------------------------------------------------------------
(* LineageNode and the derived queries of GeneticsProfile *)

\* total number of LineageNode objects in a constructed lineage
MaxNodes == 3

\* longest additional_parents list a constructed profile carries
MaxAdditional == 2

\* LineageNode(strain_name, generation=..., children=...), other fields default
LineageNode(name, gen, kids) ==
    [strain_name |-> name, strain_id |-> None, relationship |-> "parent",
     generation |-> gen, contribution_pct |-> None, strain_type |-> None,
     breeder |-> None, is_verified |-> FALSE, children |-> kids,
     source |-> None]

\* max() of a non-empty collection of integers
max(S) == CHOOSE m \in S : \A k \in S : k <= m

\* the values of a list as a set
Values(list) == {list[i] : i \in 1..Len(list)}

\* bug variant: children are counted as one level without descending
_depth_one_level(node) ==
    IF node.children = <<>> THEN 1 ELSE 1 + max({1})

\* the nested helper _depth(node) of get_lineage_depth
RECURSIVE _depth(_)
_depth(node) ==
    IF node.children = <<>>
    THEN 1
    ELSE 1 + max({_depth(c) : c \in Values(node.children)})

\* bug variant: a non-empty additional_parents list counts as a parent too
get_lineage_depth_any_parent(self) ==
    IF self.lineage = <<>>
    THEN IF Truthy(self.parent_1) \/ Truthy(self.parent_2)
            \/ self.additional_parents # <<>>
         THEN 1 ELSE 0
    ELSE max({_depth(n) : n \in Values(self.lineage)})

\* self.get_lineage_depth()
get_lineage_depth(self) ==
    IF self.lineage = <<>>
    THEN IF Truthy(self.parent_1) \/ Truthy(self.parent_2) THEN 1 ELSE 0
    ELSE max({_depth(n) : n \in Values(self.lineage)})

\* bug variant: the primary parents are appended after the additional ones
get_all_parents_primaries_last(self) ==
    self.additional_parents
        \o (IF Truthy(self.parent_1) THEN <<self.parent_1[1]>> ELSE <<>>)
        \o (IF Truthy(self.parent_2) THEN <<self.parent_2[1]>> ELSE <<>>)

\* self.get_all_parents()
get_all_parents(self) ==
    LET parents0 == <<>>
        parents1 == IF Truthy(self.parent_1)
                    THEN Append(parents0, self.parent_1[1]) ELSE parents0
        parents2 == IF Truthy(self.parent_2)
                    THEN Append(parents1, self.parent_2[1]) ELSE parents1
    IN  parents2 \o self.additional_parents

\* lineage trees a caller can construct: ordered forests with exactly n nodes
RECURSIVE ForestsOfSize(_)
ForestsOfSize(n) ==
    IF n = 0
    THEN {<<>>}
    ELSE UNION {{<<LineageNode("OG Kush", g, kids)>> \o rest :
                    g \in {1, 2},
                    kids \in ForestsOfSize(k - 1),
                    rest \in ForestsOfSize(n - k)} : k \in 1..n}

Lineages == UNION {ForestsOfSize(n) : n \in 0..MaxNodes}

\* all lists over S of length at most n
SeqsUpTo(S, n) == UNION {[1..k -> S] : k \in 0..n}

\* a parent field: absent, the empty string, or a name
ParentValues(name) == {None, Some(<<>>), Some(name)}

InitLineage ==
    /\ \E p1 \in ParentValues(<<"A">>), p2 \in ParentValues(<<"B">>),
          more \in SeqsUpTo({<<>>, <<"C">>}, MaxAdditional),
          tree \in Lineages :
           profile = [GeneticsProfile EXCEPT !.parent_1 = p1, !.parent_2 = p2,
                                             !.additional_parents = more,
                                             !.lineage = tree]
    /\ input = <<>>
    /\ call = NoCall
    /\ result = None

GetLineageDepth ==
    /\ call = NoCall
    /\ result' = get_lineage_depth(profile)
    /\ call' = [op |-> "get_lineage_depth", before |-> profile]
    /\ UNCHANGED <<profile, input>>

GetAllParents ==
    /\ call = NoCall
    /\ result' = get_all_parents(profile)
    /\ call' = [op |-> "get_all_parents", before |-> profile]
    /\ UNCHANGED <<profile, input>>

NextLineage == GetLineageDepth \/ GetAllParents

SpecLineage == InitLineage /\ [][NextLineage]_vars

-----------------------------------------------------------------------------
(* Claims about the derived queries *)

\* the children of all nodes of a list, in order
RECURSIVE ChildrenOf(_)
ChildrenOf(nodes) ==
    IF nodes = <<>> THEN <<>>
    ELSE Head(nodes).children \o ChildrenOf(Tail(nodes))

\* number of non-empty generations below and including a list of nodes
RECURSIVE Levels(_)
Levels(nodes) == IF nodes = <<>> THEN 0 ELSE 1 + Levels(ChildrenOf(nodes))

\* C3: get_lineage_depth() is, for an empty lineage, 1 if parent_1 or
\* parent_2 is set and 0 otherwise; for a non-empty lineage it is the number
\* of generations of the deepest branch (a childless node counts 1, each
\* further generation of children adds 1), whatever the flat parent fields
\* and the nodes' generation attributes are.
C3_LineageDepth ==
    call.op = "get_lineage_depth" =>
        IF profile.lineage = <<>>
        THEN result = IF Truthy(profile.parent_1) \/ Truthy(profile.parent_2)
                      THEN 1 ELSE 0
        ELSE result = Levels(profile.lineage)

\* C3 witness: a root -> child -> grandchild chain whose generation
\* attributes do not follow the depth, on a profile without parents: depth 3
C3_Witness ==
    /\ call.op = "get_lineage_depth"
    /\ profile.parent_1 = None /\ profile.parent_2 = None
    /\ Len(profile.lineage) = 1
    /\ Len(profile.lineage[1].children) = 1
    /\ Len(profile.lineage[1].children[1].children) = 1
    /\ profile.lineage[1].generation = 2
    /\ profile.lineage[1].children[1].children[1].generation = 1
    /\ result = 3

\* number of primary parents get_all_parents reports
Primaries(self) ==
    (IF Truthy(self.parent_1) THEN 1 ELSE 0)
        + (IF Truthy(self.parent_2) THEN 1 ELSE 0)

\* C4: get_all_parents() is parent_1 (if set), then parent_2 (if set), then
\* every element of additional_parents in stored order, none reordered,
\* dropped or duplicated, and the profile is left unchanged.  A primary
\* parent counts as set when it is present and not the empty string.
C4_AllParentsOrder ==
    call.op = "get_all_parents" =>
        LET k == Primaries(profile)
            more == profile.additional_parents
        IN  /\ Len(result) = k + Len(more)
            /\ \A i \in 1..Len(more) : result[k + i] = more[i]
            /\ Truthy(profile.parent_1) => result[1] = profile.parent_1[1]
            /\ Truthy(profile.parent_2) => result[k] = profile.parent_2[1]
            /\ profile = call.before

\* C4 witness: parent_1 absent, parent_2 set, two different additional
\* parents of which the first sorts after the second
C4_Witness ==
    /\ call.op = "get_all_parents"
    /\ profile.parent_1 = None
    /\ profile.parent_2 = Some(<<"B">>)
    /\ profile.additional_parents = <<<<"C">>, <<>>>>
    /\ result = <<<<"B">>, <<"C">>, <<>>>>

-----------------------------------------------------------------------------
(* Python str and re operations, on sequences of characters *)

\* the characters str.strip() removes and the regex class \s matches, among
\* the characters of the texts tried
IsSpace(c) == c \in {" ", "\t", "\n"}

\* the regex class \d
IsDigit(c) == c \in {"0", "1", "2", "3", "4", "5", "6", "7", "8", "9"}

\* value of one decimal digit
DigitValue(c) ==
    CASE c = "0" -> 0 [] c = "1" -> 1 [] c = "2" -> 2 [] c = "3" -> 3
      [] c = "4" -> 4 [] c = "5" -> 5 [] c = "6" -> 6 [] c = "7" -> 7
      [] c = "8" -> 8 [] c = "9" -> 9

\* sys.get_int_max_str_digits(): the longest digit string int() converts
\* (CPython's default; longer ones are refused with ValueError)
int_max_str_digits == 4300

\* the exception int() raises, as the outcome of the call that let it escape
ValueError == [raises |-> "ValueError"]

\* int(digits) raises instead of returning
int_raises(digits) == Len(digits) > int_max_str_digits

\* int(digits) for a non-empty digit string within the limit
RECURSIVE int(_)
int(digits) ==
    IF digits = <<>> THEN 0
    ELSE 10 * int(SubSeq(digits, 1, Len(digits) - 1))
            + DigitValue(digits[Len(digits)])

\* s[i:] with i a 1-based position
From(s, i) == SubSeq(s, i, Len(s))

\* s.strip()
strip(s) ==
    LET keep == {i \in 1..Len(s) : ~IsSpace(s[i])}
    IN  IF keep = {} THEN <<>>
        ELSE SubSeq(s, CHOOSE i \in keep : \A j \in keep : i <= j,
                       CHOOSE i \in keep : \A j \in keep : j <= i)

\* sep occurs in s at position i
MatchesAt(s, sep, i) ==
    /\ i + Len(sep) - 1 <= Len(s)
    /\ \A k \in 1..Len(sep) : s[i + k - 1] = sep[k]

\* sep in s
contains(s, sep) == \E i \in 1..Len(s) : MatchesAt(s, sep, i)

\* s.find(sep) as a 1-based position, 0 when sep does not occur
find(s, sep) ==
    IF contains(s, sep)
    THEN CHOOSE i \in 1..Len(s) :
            MatchesAt(s, sep, i) /\ \A j \in 1..(i - 1) : ~MatchesAt(s, sep, j)
    ELSE 0

\* s.split(sep): cut at every occurrence, scanning left to right
RECURSIVE split(_, _)
split(s, sep) ==
    LET i == find(s, sep)
    IN  IF i = 0 THEN <<s>>
        ELSE <<SubSeq(s, 1, i - 1)>> \o split(From(s, i + Len(sep)), sep)

\* s.replace(old, new): every occurrence found scanning left to right, each
\* scan resuming after the text just replaced
RECURSIVE replace(_, _, _)
replace(s, old, new) ==
    LET i == find(s, old)
    IN  IF i = 0 THEN s
        ELSE SubSeq(s, 1, i - 1) \o new
                \o replace(From(s, i + Len(old)), old, new)

\* [p.strip() for p in parts]
strip_each(parts) == [i \in 1..Len(parts) |-> strip(parts[i])]

\* the regex anchor $ at position i: the end of s, or just before a final "\n"
AtEnd(s, i) == i = Len(s) + 1 \/ (i = Len(s) /\ s[i] = "\n")

\* (\d+)$ from position d: the position of the last digit, 0 when no match
DigitsToEnd(s, d) ==
    LET ends == {e \in d..Len(s) :
                    (\A i \in d..e : IsDigit(s[i])) /\ AtEnd(s, e + 1)}
    IN  IF ends = {} THEN 0 ELSE CHOOSE e \in ends : \A x \in ends : x <= e

\* (.+?): the prefix s[1..k] is non-empty and holds no "\n" (the dot of a
\* pattern compiled without DOTALL)
DotPlus(s, k) == k >= 1 /\ \A i \in 1..k : s[i] # "\n"

\* min of a non-empty set of integers
min(S) == CHOOSE m \in S : \A k \in S : m <= k

\* re.match(r'^(.+?)\s*#(\d+)$', s): None, or the groups and where they end
match_hash(s) ==
    LET ks == {k \in 1..Len(s) :
                /\ DotPlus(s, k)
                /\ \E h \in (k + 1)..Len(s) :
                      /\ \A i \in (k + 1)..(h - 1) : IsSpace(s[i])
                      /\ s[h] = "#"
                      /\ DigitsToEnd(s, h + 1) # 0}
    IN  IF ks = {} THEN None
        ELSE LET k == min(ks)
                 h == CHOOSE h \in (k + 1)..Len(s) :
                        /\ \A i \in (k + 1)..(h - 1) : IsSpace(s[i])
                        /\ s[h] = "#"
                        /\ DigitsToEnd(s, h + 1) # 0
             IN  Some([group1 |-> SubSeq(s, 1, k),
                       group2 |-> SubSeq(s, h + 1, DigitsToEnd(s, h + 1))])

\* re.match(r'^(.+?)\s+(\d+)$', s): None, or the groups
match_trailing(s) ==
    LET ks == {k \in 1..Len(s) :
                /\ DotPlus(s, k)
                /\ \E w \in (k + 1)..Len(s) :
                      /\ \A i \in (k + 1)..w : IsSpace(s[i])
                      /\ DigitsToEnd(s, w + 1) # 0}
    IN  IF ks = {} THEN None
        ELSE LET k == min(ks)
                 w == CHOOSE w \in (k + 1)..Len(s) :
                        /\ \A i \in (k + 1)..w : IsSpace(s[i])
                        /\ DigitsToEnd(s, w + 1) # 0
             IN  Some([group1 |-> SubSeq(s, 1, k),
                       group2 |-> SubSeq(s, w + 1, DigitsToEnd(s, w + 1))])

\* bug variant: the generation letters are matched in upper case only
search_generation_marker_upper(base) ==
    \E i \in 1..Len(base) :
        /\ base[i] \in {"F", "S", "B", "X"}
        /\ \E e \in i..Len(base) :
              (\A j \in (i + 1)..e : IsSpace(base[j])) /\ AtEnd(base, e + 1)

\* re.search(r'[FSBX]\s*$', base, re.IGNORECASE) finds a match
search_generation_marker(base) ==
    \E i \in 1..Len(base) :
        /\ base[i] \in {"F", "S", "B", "X", "f", "s", "b", "x"}
        /\ \E e \in i..Len(base) :
              (\A j \in (i + 1)..e : IsSpace(base[j])) /\ AtEnd(base, e + 1)

-----------------------------------------------------------------------------
(* parse_strain_name *)

\* the dict parse_strain_name returns
StrainName(base, number) == [base_name |-> base, pheno_number |-> number]

\* Pattern 2 and the fall-through of parse_strain_name, name already stripped
trailing_number(name) ==
    LET m == match_trailing(name)
    IN  IF m # None /\ int_raises(m[1].group2) THEN ValueError
        ELSE IF m # None /\ ~search_generation_marker(strip(m[1].group1))
        THEN StrainName(strip(m[1].group1), Some(int(m[1].group2)))
        ELSE StrainName(name, None)

\* bug variant: the generation-marker exclusion is applied to "#N" names too
parse_strain_name_marker_first(name0) ==
    IF name0 = <<>> THEN StrainName(<<>>, None)
    ELSE LET name == strip(name0)
             m == match_hash(name)
         IN  IF m # None /\ int_raises(m[1].group2) THEN ValueError
             ELSE IF m # None /\ ~search_generation_marker(strip(m[1].group1))
             THEN StrainName(strip(m[1].group1), Some(int(m[1].group2)))
             ELSE trailing_number(name)

\* bug variant: the name is parsed as given, without name.strip()
parse_strain_name_untrimmed(name0) ==
    IF name0 = <<>> THEN StrainName(<<>>, None)
    ELSE LET m == match_hash(name0)
         IN  IF m # None /\ int_raises(m[1].group2) THEN ValueError
             ELSE IF m # None
             THEN StrainName(strip(m[1].group1), Some(int(m[1].group2)))
             ELSE trailing_number(name0)

\* parse_strain_name(name)
parse_strain_name(name0) ==
    IF name0 = <<>> THEN StrainName(<<>>, None)
    ELSE LET name == strip(name0)
             m == match_hash(name)
         IN  IF m # None /\ int_raises(m[1].group2) THEN ValueError
             ELSE IF m # None
             THEN StrainName(strip(m[1].group1), Some(int(m[1].group2)))
             ELSE trailing_number(name)

-----------------------------------------------------------------------------
(* Strain names typed character by character, then parsed *)

\* longest strain name typed
MaxNameLen == 5

\* an ordinary letter, an upper and a lower case generation letter, a space,
\* a line break, the phenotype sign and two digits
NameChars == {"a", "F", "s", " ", "\n", "#", "0", "1"}

InitName ==
    /\ profile = GeneticsProfile
    /\ input = <<>>
    /\ call = NoCall
    /\ result = None

TypeName(c) ==
    /\ call = NoCall
    /\ Len(input) < MaxNameLen
    /\ input' = Append(input, c)
    /\ UNCHANGED <<profile, call, result>>

ParseStrainName ==
    /\ call = NoCall
    /\ result' = parse_strain_name(input)
    /\ call' = [op |-> "parse_strain_name", name |-> input]
    /\ UNCHANGED <<profile, input>>

NextName == (\E c \in NameChars : TypeName(c)) \/ ParseStrainName

SpecName == InitName /\ [][NextName]_vars

-----------------------------------------------------------------------------
(* Claims about parse_strain_name *)

\* decimal value of a digit string, read from the left
RECURSIVE Decimal(_, _)
Decimal(digits, acc) ==
    IF digits = <<>> THEN acc
    ELSE Decimal(Tail(digits), 10 * acc + DigitValue(Head(digits)))

\* start of the run of digits that ends t, Len(t) + 1 when t ends otherwise
DigitRun(t) ==
    min({d \in 1..(Len(t) + 1) : \A i \in d..Len(t) : IsDigit(t[i])})

\* t ends with '#' and one or more digits, with at least one character
\* before the (optional whitespace and) '#'
HashShape(t) ==
    /\ DigitRun(t) <= Len(t)
    /\ DigitRun(t) >= 3
    /\ t[DigitRun(t) - 1] = "#"

\* t ends with at least one whitespace and one or more digits
TrailShape(t) ==
    /\ DigitRun(t) <= Len(t)
    /\ DigitRun(t) >= 3
    /\ IsSpace(t[DigitRun(t) - 1])

\* the base: the trimmed text before the '#' or whitespace in front of the digits
BaseOf(t) == strip(SubSeq(t, 1, DigitRun(t) - 2))

\* the trailing digits as an integer
NumberOf(t) == Decimal(From(t, DigitRun(t)), 0)

HasLineBreak(t) == \E i \in 1..Len(t) : t[i] = "\n"

EndsWithGenerationLetter(base) ==
    base # <<>> /\ base[Len(base)] \in {"F", "S", "B", "X", "f", "s", "b", "x"}

\* C5 as stated: every trimmed name of the shape <base> #<digits> yields the
\* trimmed base and the digits as an integer, whatever the base ends with.
C5_Rule1Always ==
    call.op = "parse_strain_name" =>
        LET t == strip(call.name)
        IN  HashShape(t) => result = StrainName(BaseOf(t), Some(NumberOf(t)))

\* C5 (amended): every trimmed name of the shape <base> #<digits> whose base
\* holds no line break yields base_name = the trimmed base and pheno_number =
\* the digits as an integer, also when the base ends with a generation code
\* or a number; the generation-marker exclusion of Rule 2 is not applied.
C5_Rule1SingleLine ==
    call.op = "parse_strain_name" =>
        LET t == strip(call.name)
        IN  (HashShape(t) /\ ~HasLineBreak(BaseOf(t)))
                => result = StrainName(BaseOf(t), Some(NumberOf(t)))

\* C5 witness: "aF #1", a base ending with a generation letter
C5_Witness ==
    /\ call.op = "parse_strain_name"
    /\ call.name = <<"a", "F", " ", "#", "1">>
    /\ result = StrainName(<<"a", "F">>, Some(1))

\* C6 as stated: without Rule 1, a trimmed name ending with whitespace and
\* digits yields the base and the number unless the base ends with one of
\* F, S, B, X in either case; then, and when neither rule matches, the result
\* is the full trimmed name without a number.
C6_Rule2Always ==
    call.op = "parse_strain_name" =>
        LET t == strip(call.name)
        IN  ~HashShape(t) =>
                IF TrailShape(t) /\ ~EndsWithGenerationLetter(BaseOf(t))
                THEN result = StrainName(BaseOf(t), Some(NumberOf(t)))
                ELSE result = StrainName(t, None)

\* C6 (amended): as C6, for a base without a line break; a name ending with
\* whitespace and digits whose base holds a line break is not matched and
\* yields the full trimmed name without a number.
C6_Rule2SingleLine ==
    call.op = "parse_strain_name" =>
        LET t == strip(call.name)
        IN  ~HashShape(t) =>
                IF /\ TrailShape(t)
                   /\ ~EndsWithGenerationLetter(BaseOf(t))
                   /\ ~HasLineBreak(BaseOf(t))
                THEN result = StrainName(BaseOf(t), Some(NumberOf(t)))
                ELSE result = StrainName(t, None)

\* C6 witness: "as 10" is kept whole because of the lower-case generation
\* letter in front of the number
C6_Witness ==
    /\ call.op = "parse_strain_name"
    /\ call.name = <<"a", "s", " ", "1", "0">>
    /\ result = StrainName(<<"a", "s", " ", "1", "0">>, None)

\* a second case of C6: "a  01" yields base "a" and the number 1
C6_NumberWitness ==
    /\ call.op = "parse_strain_name"
    /\ call.name = <<"a", " ", " ", "0", "1">>
    /\ result = StrainName(<<"a">>, Some(1))

-----------------------------------------------------------------------------
(* parse_genetics_line and GeneticsProfile.from_simple *)

DoubleSpace == <<" ", " ">>

LowerX == <<" ", "x", " ">>

UpperX == <<" ", "X", " ">>

\* the empty dict
EmptyDict == [k \in {} |-> None]

\* bug variant: only a run of two or more whitespace characters separates
\* the columns, a lone tab does not
re_split_once_runs_only(s) ==
    LET starts == {p \in 1..Len(s) :
                     IsSpace(s[p]) /\ p < Len(s) /\ IsSpace(s[p + 1])}
    IN  IF starts = {} THEN <<s>>
        ELSE LET p == CHOOSE p \in starts : \A j \in starts : p <= j
                 run == {q \in p..Len(s) : \A i \in p..q : IsSpace(s[i])}
                 q == CHOOSE q \in run : \A j \in run : j <= q
             IN  <<SubSeq(s, 1, p - 1), From(s, q + 1)>>

\* re.split(r'\s{2,}|\t', s, maxsplit=1): the leftmost position where a run
\* of two or more whitespace characters or a tab starts; the run is taken
\* whole (greedy), the lone tab is one character
re_split_once(s) ==
    LET starts == {p \in 1..Len(s) :
                     \/ (IsSpace(s[p]) /\ p < Len(s) /\ IsSpace(s[p + 1]))
                     \/ s[p] = "\t"}
    IN  IF starts = {} THEN <<s>>
        ELSE LET p == min(starts)
                 run == {q \in p..Len(s) : \A i \in p..q : IsSpace(s[i])}
                 q == IF p < Len(s) /\ IsSpace(s[p + 1]) THEN max(run) ELSE p
             IN  <<SubSeq(s, 1, p - 1), From(s, q + 1)>>

\* bug variant: the separator that occurs first in the text wins
split_parents_first_found(genetics_str, seps, parents) ==
    LET found == {i \in 1..Len(seps) : contains(genetics_str, seps[i])}
    IN  IF found = {} THEN parents
        ELSE LET i == CHOOSE i \in found : \A j \in found :
                        \/ find(genetics_str, seps[i]) < find(genetics_str, seps[j])
                        \/ (find(genetics_str, seps[i]) = find(genetics_str, seps[j])
                            /\ i <= j)
             IN  strip_each(split(genetics_str, seps[i]))

\* the loop "for sep in seps: if sep in genetics_str: parents = ...; break"
RECURSIVE split_parents(_, _, _)
split_parents(genetics_str, seps, parents) ==
    IF seps = <<>> THEN parents
    ELSE IF contains(genetics_str, Head(seps))
         THEN strip_each(split(genetics_str, Head(seps)))
         ELSE split_parents(genetics_str, Tail(seps), parents)

\* parse_genetics_line(line)
parse_genetics_line(line) ==
    IF line = <<>> \/ strip(line) = <<>> THEN EmptyDict
    ELSE LET parts == re_split_once(strip(line))
         IN  IF Len(parts) < 2
             THEN [strain_name |-> strip(line), genetics |-> None]
             ELSE LET strain_full_name == strip(parts[1])
                      genetics_str == strip(parts[2])
                      strain_info == parse_strain_name(strain_full_name)
                      found == split_parents(genetics_str,
                                             <<DoubleSpace, LowerX, UpperX>>, <<>>)
                      parents == IF found = <<>> THEN <<genetics_str>> ELSE found
                  IN  IF strain_info = ValueError THEN ValueError ELSE
                      [strain_name |-> strain_full_name,
                       base_name |-> strain_info.base_name,
                       pheno_number |-> strain_info.pheno_number,
                       genetics_string |-> genetics_str,
                       parents |-> parents,
                       parent_count |-> Len(parents)]

\* bug variant: only the lower-case separator is normalized
normalize_separators_lower_only(text) == replace(text, LowerX, DoubleSpace)

\* text.replace(" x ", "  ").replace(" X ", "  ")
normalize_separators(text) ==
    replace(replace(text, LowerX, DoubleSpace), UpperX, DoubleSpace)

\* bug variant: every parsed cross is classified as polyhybrid
profile_of_parts_always_polyhybrid(parts, text) ==
    [GeneticsProfile EXCEPT
        !.parent_1 = Some(parts[1]),
        !.parent_2 = Some(parts[2]),
        !.additional_parents = SubSeq(parts, 3, Len(parts)),
        !.lineage_text = Some(normalize_separators(text)),
        !.breeding_technique = "polyhybrid"]

\* the profile from_simple builds from the parts of one split
profile_of_parts(parts, text) ==
    IF Len(parts) = 2
    THEN [GeneticsProfile EXCEPT
            !.parent_1 = Some(parts[1]),
            !.parent_2 = Some(parts[2]),
            !.lineage_text = Some(normalize_separators(text))]
    ELSE [GeneticsProfile EXCEPT
            !.parent_1 = Some(parts[1]),
            !.parent_2 = Some(parts[2]),
            !.additional_parents = SubSeq(parts, 3, Len(parts)),
            !.lineage_text = Some(normalize_separators(text)),
            !.breeding_technique = "polyhybrid"]

\* the loop of from_simple over ["  ", " x ", " X ", "  "]
RECURSIVE from_simple_loop(_, _)
from_simple_loop(text, seps) ==
    IF seps = <<>> THEN [GeneticsProfile EXCEPT !.lineage_text = Some(text)]
    ELSE IF contains(text, Head(seps))
         THEN LET parts == strip_each(split(text, Head(seps)))
              IN  IF Len(parts) = 2 \/ Len(parts) > 2
                  THEN profile_of_parts(parts, text)
                  ELSE from_simple_loop(text, Tail(seps))
         ELSE from_simple_loop(text, Tail(seps))

\* GeneticsProfile.from_simple(genetics_string)
from_simple(genetics_string) ==
    IF genetics_string = <<>> THEN GeneticsProfile
    ELSE from_simple_loop(strip(genetics_string),
                          <<DoubleSpace, LowerX, UpperX, DoubleSpace>>)

-----------------------------------------------------------------------------
(* Genetics text typed in chunks, then parsed *)

\* number of chunks typed
MaxGenChunks == 5

\* two letters (one of them the cross sign), a space, a tab and the two
\* spelled-out cross separators
GenChunks == {<<"a">>, <<"x">>, <<" ">>, <<"\t">>, LowerX, UpperX}

\* what may precede the typed text on a line: nothing, or a strain name
\* (plain, with a trailing number, with a "#" number) and a column separator
LinePrefixes ==
    {<<>>,
     <<"a", "\t">>,
     <<"a", " ", "1", "2", " ", " ">>,
     <<"a", "F", " ", "#", "2", "\t", "\t">>}

InitGenetics ==
    /\ profile = GeneticsProfile
    /\ input = <<>>
    /\ call = [op |-> "none", chunks |-> 0]
    /\ result = None

TypeGenetics(c) ==
    /\ call.op = "none"
    /\ call.chunks < MaxGenChunks
    /\ input' = input \o c
    /\ call' = [call EXCEPT !.chunks = @ + 1]
    /\ UNCHANGED <<profile, result>>

FromSimple ==
    /\ call.op = "none"
    /\ result' = from_simple(input)
    /\ call' = [op |-> "from_simple", genetics_string |-> input]
    /\ UNCHANGED <<profile, input>>

ParseGeneticsLine(prefix) ==
    /\ call.op = "none"
    /\ result' = parse_genetics_line(prefix \o input)
    /\ call' = [op |-> "parse_genetics_line", line |-> prefix \o input]
    /\ UNCHANGED <<profile, input>>

NextGenetics ==
    \/ \E c \in GenChunks : TypeGenetics(c)
    \/ FromSimple
    \/ \E prefix \in LinePrefixes : ParseGeneticsLine(prefix)

SpecGenetics == InitGenetics /\ [][NextGenetics]_vars

-----------------------------------------------------------------------------
(* Claims about parse_genetics_line and from_simple *)

\* t holds a tab or a run of two or more whitespace characters
HasColumnSeparator(t) ==
    \/ \E p \in 1..Len(t) : t[p] = "\t"
    \/ \E p \in 1..(Len(t) - 1) : IsSpace(t[p]) /\ IsSpace(t[p + 1])

\* where the first such separator starts
ColumnSeparatorStart(t) ==
    min({p \in 1..Len(t) :
            \/ t[p] = "\t"
            \/ (p < Len(t) /\ IsSpace(t[p]) /\ IsSpace(t[p + 1]))})

\* the ordered parent tokens of a genetics string: one separator, chosen by
\* the precedence double-space, " x ", " X "; each token trimmed
Tokens(g) ==
    IF contains(g, DoubleSpace) THEN strip_each(split(g, DoubleSpace))
    ELSE IF contains(g, LowerX) THEN strip_each(split(g, LowerX))
    ELSE IF contains(g, UpperX) THEN strip_each(split(g, UpperX))
    ELSE <<g>>

HasParentSeparator(g) ==
    contains(g, DoubleSpace) \/ contains(g, LowerX) \/ contains(g, UpperX)

\* C7: parse_genetics_line gives the empty result for an empty or
\* whitespace-only line, {strain_name: trimmed line, genetics: absent} for a
\* trimmed line without a tab or a run of two or more whitespace characters,
\* and otherwise the record of the line split once at its first separator:
\* strain_name = first part, base_name and pheno_number =
\* parse_strain_name(first part), genetics_string = trimmed remainder,
\* parents = its token list, parent_count = the length of parents, >= 1.
C7_LineRecord ==
    call.op = "parse_genetics_line" =>
        LET t == strip(call.line)
        IN  IF t = <<>> THEN DOMAIN result = {}
            ELSE IF ~HasColumnSeparator(t)
            THEN /\ DOMAIN result = {"strain_name", "genetics"}
                 /\ result.strain_name = t
                 /\ result.genetics = None
            ELSE LET p == ColumnSeparatorStart(t)
                     first == SubSeq(t, 1, p - 1)
                     rest == strip(From(t, p))
                 IN  /\ DOMAIN result = {"strain_name", "base_name",
                                         "pheno_number", "genetics_string",
                                         "parents", "parent_count"}
                     /\ result.strain_name = first
                     /\ result.base_name = parse_strain_name(first).base_name
                     /\ result.pheno_number = parse_strain_name(first).pheno_number
                     /\ result.genetics_string = rest
                     /\ result.parents = Tokens(rest)
                     /\ result.parent_count = Len(result.parents)
                     /\ result.parent_count >= 1

\* C7 witness: "a 12  a x a" gives name "a 12", base "a", number 12 and the
\* two parents "a", "a"
C7_Witness ==
    /\ call.op = "parse_genetics_line"
    /\ call.line = <<"a", " ", "1", "2", " ", " ", "a", " ", "x", " ", "a">>
    /\ result.strain_name = <<"a", " ", "1", "2">>
    /\ result.base_name = <<"a">>
    /\ result.pheno_number = Some(12)
    /\ result.parents = <<<<"a">>, <<"a">>>>
    /\ result.parent_count = 2

\* the parents a from_simple profile names, in order
ParentsOf(p) == p.parent_1 \o p.parent_2 \o p.additional_parents

C8_FromSimpleWitness ==
    /\ call.op = "from_simple"
    /\ call.genetics_string = <<"a", " ", "x", " ", " ", "a">>
    /\ result.parent_1 = Some(<<"a", " ", "x">>)
    /\ result.parent_2 = Some(<<"a">>)

\* every field but the five from_simple may set holds its default
OtherFieldsDefault(p) ==
    [p EXCEPT !.parent_1 = None, !.parent_2 = None,
              !.additional_parents = <<>>, !.lineage_text = None,
              !.breeding_technique = "unknown"] = GeneticsProfile

\* C9: from_simple gives the default profile for empty text; two tokens set
\* parent_1, parent_2 and leave additional_parents empty and the technique
\* unknown; more than two set the first two, put the rest in
\* additional_parents in order and set polyhybrid; without a separator the
\* trimmed text is the lineage_text and no parent is set; every other field
\* keeps its default.
C9_FromSimple ==
    call.op = "from_simple" =>
        LET g == call.genetics_string
            text == strip(g)
            toks == Tokens(text)
        IN  /\ g = <<>> => result = GeneticsProfile
            /\ (g # <<>> /\ HasParentSeparator(text) /\ Len(toks) = 2) =>
                  /\ result.parent_1 = Some(toks[1])
                  /\ result.parent_2 = Some(toks[2])
                  /\ result.additional_parents = <<>>
                  /\ result.breeding_technique = "unknown"
            /\ (g # <<>> /\ HasParentSeparator(text) /\ Len(toks) > 2) =>
                  /\ result.parent_1 = Some(toks[1])
                  /\ result.parent_2 = Some(toks[2])
                  /\ result.additional_parents = SubSeq(toks, 3, Len(toks))
                  /\ result.breeding_technique = "polyhybrid"
            /\ (g # <<>> /\ ~HasParentSeparator(text)) =>
                  /\ result.lineage_text = Some(text)
                  /\ result.parent_1 = None
                  /\ result.parent_2 = None
                  /\ result.additional_parents = <<>>
            /\ OtherFieldsDefault(result)

\* C9 witness: "a x a x x" has three tokens: polyhybrid with one additional
\* parent
C9_Witness ==
    /\ call.op = "from_simple"
    /\ call.genetics_string = <<"a", " ", "x", " ", "a", " ", "x", " ", "x">>
    /\ result.parent_1 = Some(<<"a">>)
    /\ result.additional_parents = <<<<"x">>>>
    /\ result.breeding_technique = "polyhybrid"

\* a second case of C9: two tokens, technique unknown
C9_TwoTokensWitness ==
    /\ call.op = "from_simple"
    /\ call.genetics_string = <<"a", " ", "X", " ", "x">>
    /\ result.parent_2 = Some(<<"x">>)
    /\ result.additional_parents = <<>>
    /\ result.breeding_technique = "unknown"

\* no " x " and no " X " occurs in s
Normalized(s) == ~contains(s, LowerX) /\ ~contains(s, UpperX)

\* two separators of the same case share a space: " x x " or " X X "
OverlappingSeparators(s) ==
    \/ contains(s, <<" ", "x", " ", "x", " ">>)
    \/ contains(s, <<" ", "X", " ", "X", " ">>)

\* C10 as stated: whenever from_simple finds a separator, lineage_text holds
\* no " x " and no " X ".
C10_NoSeparatorLeft ==
    (call.op = "from_simple" /\ call.genetics_string # <<>>
        /\ HasParentSeparator(strip(call.genetics_string)))
    => (result.lineage_text # None /\ Normalized(result.lineage_text[1]))

\* C10 (amended): whenever from_simple finds a separator, lineage_text holds
\* no " x " and no " X " unless the trimmed text holds two separators of the
\* same case sharing a space (" x x ", " X X "), of which only the first is
\* replaced; a text whose only separators are double-spaces is stored as it
\* is.
C10_NormalizedUnlessOverlap ==
    (call.op = "from_simple" /\ call.genetics_string # <<>>
        /\ HasParentSeparator(strip(call.genetics_string)))
    => LET text == strip(call.genetics_string)
       IN  /\ result.lineage_text # None
           /\ ~OverlappingSeparators(text) => Normalized(result.lineage_text[1])
           /\ Normalized(text) => result.lineage_text[1] = text

\* C10 witness: "a x a X a" is stored as "a  a  a"
C10_Witness ==
    /\ call.op = "from_simple"
    /\ call.genetics_string = <<"a", " ", "x", " ", "a", " ", "X", " ", "a">>
    /\ result.lineage_text = Some(<<"a", " ", " ", "a", " ", " ", "a">>)

-----------------------------------------------------------------------------
(* bulk_parse_genetics *)

\* the outcome of a call that returned the list v (a list and an exception
\* are told apart by the field they are stored under)
Returned(v) == [returns |-> v]

\* the loop of bulk_parse_genetics over the lines not yet read; an exception
\* of parse_genetics_line is not caught and ends the call
RECURSIVE bulk_parse_loop(_, _)
bulk_parse_loop(lines, results) ==
    IF lines = <<>> THEN Returned(results)
    ELSE LET line == Head(lines)
             parsed == parse_genetics_line(line)
         IN  IF strip(line) = <<>> THEN bulk_parse_loop(Tail(lines), results)
             ELSE IF parsed = ValueError THEN ValueError
             ELSE IF DOMAIN parsed # {}
             THEN bulk_parse_loop(Tail(lines), Append(results, parsed))
             ELSE bulk_parse_loop(Tail(lines), results)

\* bulk_parse_genetics(lines)
bulk_parse_genetics(lines) == bulk_parse_loop(lines, <<>>)

-----------------------------------------------------------------------------
(* Batches of lines given to bulk_parse_genetics *)

\* most lines of a batch of ordinary lines
MaxBulkLines == 3

\* ordinary lines: empty, blank, a name alone, name and genetics
BulkLines ==
    {<<>>,
     <<" ", "\t">>,
     <<"a", " ", "1">>,
     <<"a", "\t", "b">>,
     <<"a", " ", "#", "2", " ", " ", "b", " ", "x", " ", "c">>}

\* a strain name whose phenotype number has one digit more than int() accepts
OversizeName ==
    <<"a", " ", "#">> \o [i \in 1..(int_max_str_digits + 1) |-> "1"]

\* a batch with such a name in its second line
OversizeBatch ==
    <<<<"a", "\t", "b">>, OversizeName \o <<"\t", "b">>, <<"c", "\t", "d">>>>

Batches == SeqsUpTo(BulkLines, MaxBulkLines) \cup {OversizeBatch}

InitBulk ==
    /\ profile = GeneticsProfile
    /\ input = <<>>
    /\ call = NoCall
    /\ result = None

BulkParseGenetics(lines) ==
    /\ call = NoCall
    /\ input' = lines
    /\ result' = bulk_parse_genetics(lines)
    /\ call' = [op |-> "bulk_parse_genetics", lines |-> lines]
    /\ UNCHANGED profile

NextBulk == \E lines \in Batches : BulkParseGenetics(lines)

SpecBulk == InitBulk /\ [][NextBulk]_vars

-----------------------------------------------------------------------------
(* Claims about bulk_parse_genetics *)

\* a line with at least one character that is not whitespace
NonBlank(line) == \E i \in 1..Len(line) : ~IsSpace(line[i])

\* the non-blank lines of a batch, in input order
NonBlankLines(lines) == SelectSeq(lines, NonBlank)

\* the result is the list of the records of the non-blank lines, in order
RecordsOfNonBlank(lines, records) ==
    LET nb == NonBlankLines(lines)
    IN  /\ DOMAIN records = 1..Len(nb)
        /\ \A i \in 1..Len(nb) : records[i] = parse_genetics_line(nb[i])

\* C11: bulk_parse_genetics(lines) returns one record of parse_genetics_line
\* per non-blank line, in input order, blank lines contribute nothing, and
\* no line aborts the batch.
C11_BulkRecords ==
    call.op = "bulk_parse_genetics" =>
        /\ result # ValueError
        /\ RecordsOfNonBlank(call.lines, result.returns)

\* the batches that are parsed to the end give exactly those records
C11_RecordsWhenReturned ==
    (call.op = "bulk_parse_genetics" /\ result # ValueError) =>
        RecordsOfNonBlank(call.lines, result.returns)

\* a batch of three lines, the blank one in the middle, gave two records
C11_ReturnedWitness ==
    /\ call.op = "bulk_parse_genetics"
    /\ call.lines = <<<<"a", " ", "1">>, <<" ", "\t">>, <<"a", "\t", "b">>>>
    /\ Len(result.returns) = 2
    /\ result.returns[1] = [strain_name |-> <<"a", " ", "1">>, genetics |-> None]
    /\ result.returns[2].parents = <<<<"b">>>>

-----------------------------------------------------------------------------
(* create_strain_with_genetics *)

\* PhenotypeVariant(phenotype_name=name, phenotype_number=number) with the
\* other fields at their defaults
PhenotypeVariant(name, number) ==
    [phenotype_name |-> name, phenotype_number |-> number,
     discovered_by |-> None, discovery_year |-> None,
     strain_type_override |-> None, indica_pct |-> None, sativa_pct |-> None,
     distinguishing_traits |-> <<>>,
     typical_thc_min |-> None, typical_thc_max |-> None,
     typical_cbd_min |-> None, typical_cbd_max |-> None,
     typical_terpene_profile |-> None,
     flowering_days_min |-> None, flowering_days_max |-> None,
     yield_indoor_g_m2 |-> None, yield_outdoor_g_plant |-> None,
     notes |-> None, is_clone_only |-> FALSE]

\* Strain(name=name) with the other fields at their defaults
Strain(name) ==
    [name |-> name, type |-> "unknown", id |-> None, display_name |-> None,
     genetics |-> None, genetics_profile |-> None, breeder |-> None,
     description |-> None, effects |-> <<>>, flavors |-> <<>>,
     aromas |-> <<>>, aliases |-> <<>>,
     typical_thc_min |-> None, typical_thc_max |-> None,
     typical_cbd_min |-> None, typical_cbd_max |-> None,
     typical_terpene_profile |-> None]

\* "if breeder: profile.breeder = breeder"
with_breeder(prof, breeder) ==
    IF Truthy(breeder) THEN [prof EXCEPT !.breeder = breeder] ELSE prof

\* bug variant: the number is tested for truth, so that "#0" is no phenotype
with_phenotype_if_nonzero(prof, name, name_info) ==
    IF name_info.pheno_number # None /\ name_info.pheno_number[1] # 0
    THEN [prof EXCEPT
            !.phenotypes =
                Append(@, PhenotypeVariant(name, name_info.pheno_number)),
            !.selected_phenotype = Some(name)]
    ELSE prof

\* "if name_info["pheno_number"] is not None:" and its body
with_phenotype(prof, name, name_info) ==
    IF name_info.pheno_number # None
    THEN [prof EXCEPT
            !.phenotypes =
                Append(@, PhenotypeVariant(name, name_info.pheno_number)),
            !.selected_phenotype = Some(name)]
    ELSE prof

\* create_strain_with_genetics(name, genetics_string, strain_type, breeder);
\* an exception of parse_strain_name is not caught
create_strain_with_genetics(name, genetics_string, strain_type, breeder) ==
    LET name_info == parse_strain_name(name)
        prof == with_phenotype(
                    with_breeder(from_simple(genetics_string), breeder),
                    name, name_info)
    IN  IF name_info = ValueError THEN ValueError
        ELSE [Strain(name) EXCEPT
                !.display_name = Some(name),
                !.type = strain_type,
                !.breeder = breeder,
                !.genetics = Some(genetics_string),
                !.genetics_profile = Some(prof)]

-----------------------------------------------------------------------------
(* Strains created from a name and a genetics string *)

\* longest strain name given to create_strain_with_genetics
MaxCreateNameLen == 3

\* a letter (the generation letter), a space, the phenotype sign, two digits
CreateNameChars == {"F", " ", "#", "0", "1"}

CreateNames == SeqsUpTo(CreateNameChars, MaxCreateNameLen)

\* no text, text without separator, two parents, three parents
CreateGenetics ==
    {<<>>,
     <<"a">>,
     <<"a", " ", "x", " ", "b">>,
     <<"a", " ", " ", "b", " ", " ", "c">>}

StrainTypes == {"unknown", "hybrid"}

\* breeder: not given, the empty string, a name
Breeders == {None, Some(<<>>), Some(<<"B">>)}

InitCreate ==
    /\ profile = GeneticsProfile
    /\ input = <<>>
    /\ call = NoCall
    /\ result = None

CreateStrainWithGenetics(name, genetics_string, strain_type, breeder) ==
    /\ call = NoCall
    /\ input' = name
    /\ result' = create_strain_with_genetics(name, genetics_string,
                                             strain_type, breeder)
    /\ call' = [op |-> "create_strain_with_genetics", name |-> name,
                genetics_string |-> genetics_string,
                strain_type |-> strain_type, breeder |-> breeder]
    /\ UNCHANGED profile

NextCreate ==
    \E name \in CreateNames, genetics_string \in CreateGenetics,
       strain_type \in StrainTypes, breeder \in Breeders :
        CreateStrainWithGenetics(name, genetics_string, strain_type, breeder)

SpecCreate == InitCreate /\ [][NextCreate]_vars

-----------------------------------------------------------------------------
(* Claims about create_strain_with_genetics *)

\* C12: create_strain_with_genetics returns a Strain with name and
\* display_name the full name as given, the given type and breeder, genetics
\* the genetics string as given and, as genetics_profile,
\* from_simple(genetics_string) with breeder set when a (non-empty) breeder is
\* supplied; phenotypes holds exactly one PhenotypeVariant (phenotype_name the
\* full name, phenotype_number the extracted number) and selected_phenotype
\* is the full name exactly when parse_strain_name(name) yields a number, 0
\* included; otherwise phenotypes is empty and selected_phenotype absent.
\* Every other field of the Strain and of the variant holds its default.
C12_CreatedStrain ==
    call.op = "create_strain_with_genetics" =>
        LET number == parse_strain_name(call.name).pheno_number
            simple == from_simple(call.genetics_string)
            gp == result.genetics_profile[1]
        IN  /\ result.name = call.name
            /\ result.display_name = Some(call.name)
            /\ result.type = call.strain_type
            /\ result.breeder = call.breeder
            /\ result.genetics = Some(call.genetics_string)
            /\ [result EXCEPT !.display_name = None, !.type = "unknown",
                              !.breeder = None, !.genetics = None,
                              !.genetics_profile = None] = Strain(call.name)
            /\ result.genetics_profile # None
            /\ gp.breeder = IF Truthy(call.breeder) THEN call.breeder
                            ELSE simple.breeder
            /\ [gp EXCEPT !.breeder = simple.breeder, !.phenotypes = <<>>,
                          !.selected_phenotype = None] = simple
            /\ number # None =>
                  /\ gp.phenotypes = <<PhenotypeVariant(call.name, number)>>
                  /\ gp.selected_phenotype = Some(call.name)
            /\ number = None =>
                  /\ gp.phenotypes = <<>>
                  /\ gp.selected_phenotype = None

\* C12 witness: the name "F#0" has the phenotype number 0; the strain created
\* with three parents and a breeder carries the one variant "F#0" / 0
C12_Witness ==
    /\ call.op = "create_strain_with_genetics"
    /\ call.name = <<"F", "#", "0">>
    /\ call.breeder = Some(<<"B">>)
    /\ call.genetics_string = <<"a", " ", " ", "b", " ", " ", "c">>
    /\ result.genetics_profile[1].phenotypes =
          <<PhenotypeVariant(<<"F", "#", "0">>, Some(0))>>
    /\ result.genetics_profile[1].selected_phenotype = Some(<<"F", "#", "0">>)
    /\ result.genetics_profile[1].breeder = Some(<<"B">>)
    /\ result.genetics_profile[1].breeding_technique = "polyhybrid"

\* a name without number ("F 1" ends in a generation marker): no variant
C12_NoNumberWitness ==
    /\ call.op = "create_strain_with_genetics"
    /\ call.name = <<"F", " ", "1">>
    /\ result.genetics_profile[1].phenotypes = <<>>
    /\ result.genetics_profile[1].selected_phenotype = None

-----------------------------------------------------------------------------
(* The wire format: dicts, enums and ISO texts *)

\* A dict is a function on its keys.  The value stored under a key has the
\* encoding of the field it comes from: an Optional field is stored as
\* Some(v), so that a stored None is a JSON null.

\* the exceptions deserialization lets escape, as outcomes of the call
KeyError == [raises |-> "KeyError"]

TypeError == [raises |-> "TypeError"]

\* the outcome of a call is an exception (outcome is a record or a dict)
IsException(outcome) == "raises" \in DOMAIN outcome

\* data.get(key)
get(data, key) == IF key \in DOMAIN data THEN data[key] ELSE None

\* data.get(key, default)
get_default(data, key, default) ==
    IF key \in DOMAIN data THEN data[key] ELSE default

\* the dict d without the key
Without(d, key) == [k \in DOMAIN d \ {key} |-> d[k]]

\* the values of the str enums
BreedingTechnique ==
    {"cross", "backcross", "selfing", "landrace", "polyhybrid", "f1", "f2",
     "f3", "f4", "f5_plus", "s1", "s2", "bx1", "bx2", "bx3", "clone",
     "tissue_culture", "unknown"}

GeneticsStability ==
    {"unstable", "semi_stable", "stable", "ibl", "landrace", "clone_only",
     "unknown"}

GeneticsConfidence ==
    {"verified", "high", "medium", "low", "disputed", "unknown"}

LineageRelationship ==
    {"parent", "mother", "father", "grandparent", "great_grandparent",
     "ancestor", "sibling", "child", "unknown"}

StrainType ==
    {"indica", "sativa", "hybrid", "hybrid_indica", "hybrid_sativa", "cbd",
     "unknown"}

\* Enum(value) raises ValueError: the value is none of the enum's values (a
\* member is modelled by its value, which is what .value returns)
enum_raises(Enum, value) == value \notin Enum

\* one decimal digit as a character
DigitChar(d) ==
    CASE d = 0 -> "0" [] d = 1 -> "1" [] d = 2 -> "2" [] d = 3 -> "3"
      [] d = 4 -> "4" [] d = 5 -> "5" [] d = 6 -> "6" [] d = 7 -> "7"
      [] d = 8 -> "8" [] d = 9 -> "9"

\* A date or datetime is modelled by its ordinal (a natural number) and its
\* ISO text by the decimal text of the ordinal.
RECURSIVE isoformat(_)
isoformat(t) ==
    IF t < 10 THEN <<DigitChar(t)>>
    ELSE Append(isoformat(t \div 10), DigitChar(t % 10))

\* fromisoformat(text) raises ValueError: the text is not a date
fromisoformat_raises(text) ==
    text = <<>> \/ \E i \in 1..Len(text) : ~IsDigit(text[i])

\* fromisoformat(text) for a text that is a date
fromisoformat(text) == int(text)

-----------------------------------------------------------------------------
(* GeneticsSource.to_dict / from_dict *)

GeneticsSourceOptionalKeys ==
    {"sourceUrl", "sourceId", "retrievedAt", "verifiedBy", "verificationDate",
     "notes"}

\* the condition under which GeneticsSource.to_dict stores an optional key
GeneticsSource_emits(self, key) ==
    CASE key = "sourceUrl" -> Truthy(self.source_url)
      [] key = "sourceId" -> Truthy(self.source_id)
      [] key = "retrievedAt" -> self.retrieved_at # None
      [] key = "verifiedBy" -> Truthy(self.verified_by)
      [] key = "verificationDate" -> self.verification_date # None
      [] key = "notes" -> Truthy(self.notes)

\* the value GeneticsSource.to_dict stores under a key
GeneticsSource_entry(self, key) ==
    CASE key = "sourceName" -> self.source_name
      [] key = "sourceType" -> self.source_type
      [] key = "confidence" -> self.confidence
      [] key = "sourceUrl" -> self.source_url
      [] key = "sourceId" -> self.source_id
      [] key = "retrievedAt" -> Some(isoformat(self.retrieved_at[1]))
      [] key = "verifiedBy" -> self.verified_by
      [] key = "verificationDate" -> Some(isoformat(self.verification_date[1]))
      [] key = "notes" -> self.notes

\* GeneticsSource.to_dict(self)
GeneticsSource_to_dict(self) ==
    [key \in {"sourceName", "sourceType", "confidence"}
              \cup {k \in GeneticsSourceOptionalKeys :
                       GeneticsSource_emits(self, k)}
        |-> GeneticsSource_entry(self, key)]

\* "fromisoformat(data[key]) if data.get(key) else None" raises
iso_field_raises(data, key) ==
    Truthy(get(data, key)) /\ fromisoformat_raises(data[key][1])

\* "fromisoformat(data[key]) if data.get(key) else None"
iso_field(data, key) ==
    IF Truthy(get(data, key)) THEN Some(fromisoformat(data[key][1])) ELSE None

\* GeneticsSource.from_dict(data): the keyword arguments are evaluated in
\* the order written, the first exception escapes
GeneticsSource_from_dict(data) ==
    IF "sourceName" \notin DOMAIN data THEN KeyError
    ELSE IF enum_raises(GeneticsConfidence,
                        get_default(data, "confidence", "medium"))
    THEN ValueError
    ELSE IF iso_field_raises(data, "retrievedAt") THEN ValueError
    ELSE IF iso_field_raises(data, "verificationDate") THEN ValueError
    ELSE [source_name |-> data["sourceName"],
          source_type |-> get_default(data, "sourceType", "database"),
          source_url |-> get(data, "sourceUrl"),
          source_id |-> get(data, "sourceId"),
          confidence |-> get_default(data, "confidence", "medium"),
          retrieved_at |-> iso_field(data, "retrievedAt"),
          verified_by |-> get(data, "verifiedBy"),
          verification_date |-> iso_field(data, "verificationDate"),
          notes |-> get(data, "notes")]

-----------------------------------------------------------------------------
(* List comprehensions over calls that may raise *)

\* some call of the comprehension raised
any_raises(outcomes) == \E i \in DOMAIN outcomes : IsException(outcomes[i])

\* the exception of the first call that raised
first_exception(outcomes) ==
    outcomes[min({i \in DOMAIN outcomes : IsException(outcomes[i])})]

-----------------------------------------------------------------------------
(* LineageNode.to_dict / from_dict *)

LineageNodeOptionalKeys ==
    {"strainId", "contributionPct", "strainType", "breeder", "children",
     "source"}

\* the condition under which LineageNode.to_dict stores an optional key
LineageNode_emits(self, key) ==
    CASE key = "strainId" -> Truthy(self.strain_id)
      [] key = "contributionPct" -> self.contribution_pct # None
      [] key = "strainType" -> self.strain_type # None
      [] key = "breeder" -> Truthy(self.breeder)
      [] key = "children" -> self.children # <<>>
      [] key = "source" -> self.source # None

\* LineageNode.to_dict(self)
RECURSIVE LineageNode_to_dict(_)
LineageNode_to_dict(self) ==
    [key \in {"strainName", "relationship", "generation", "isVerified"}
              \cup {k \in LineageNodeOptionalKeys : LineageNode_emits(self, k)}
        |-> CASE key = "strainName" -> self.strain_name
              [] key = "relationship" -> self.relationship
              [] key = "generation" -> self.generation
              [] key = "isVerified" -> self.is_verified
              [] key = "strainId" -> self.strain_id
              [] key = "contributionPct" -> self.contribution_pct
              [] key = "strainType" -> self.strain_type[1]
              [] key = "breeder" -> self.breeder
              [] key = "children" ->
                    [i \in 1..Len(self.children) |->
                        LineageNode_to_dict(self.children[i])]
              [] key = "source" -> GeneticsSource_to_dict(self.source[1])]

\* data.get(key) is true for an enum key: the key holds a non-empty string
enum_given(data, key) == key \in DOMAIN data /\ data[key] # ""

\* data.get(key) is true for a key holding a dict: the dict is not empty
dict_given(data, key) == key \in DOMAIN data /\ DOMAIN data[key] # {}

\* LineageNode.from_dict(data)
RECURSIVE LineageNode_from_dict(_)
LineageNode_from_dict(data) ==
    LET children == [i \in 1..Len(get_default(data, "children", <<>>)) |->
                        LineageNode_from_dict(data["children"][i])]
        source == GeneticsSource_from_dict(data["source"])
    IN  IF "strainName" \notin DOMAIN data THEN KeyError
        ELSE IF enum_raises(LineageRelationship,
                            get_default(data, "relationship", "parent"))
        THEN ValueError
        ELSE IF enum_given(data, "strainType")
                /\ enum_raises(StrainType, data["strainType"])
        THEN ValueError
        ELSE IF any_raises(children) THEN first_exception(children)
        ELSE IF dict_given(data, "source") /\ IsException(source) THEN source
        ELSE [strain_name |-> data["strainName"],
              strain_id |-> get(data, "strainId"),
              relationship |-> get_default(data, "relationship", "parent"),
              generation |-> get_default(data, "generation", 1),
              contribution_pct |-> get(data, "contributionPct"),
              strain_type |-> IF enum_given(data, "strainType")
                              THEN Some(data["strainType"]) ELSE None,
              breeder |-> get(data, "breeder"),
              is_verified |-> get_default(data, "isVerified", FALSE),
              children |-> children,
              source |-> IF dict_given(data, "source")
                         THEN Some(source) ELSE None]

-----------------------------------------------------------------------------
(* TerpeneEntry and TerpeneProfile, as far as a PhenotypeVariant uses them *)

\* TerpeneEntry.to_dict(self)
TerpeneEntry_to_dict(self) ==
    [key \in {"name", "value", "unit"}
              \cup (IF Truthy(self.cdes_id) THEN {"cdesId"} ELSE {})
              \cup (IF Truthy(self.cas_number) THEN {"casNumber"} ELSE {})
              \cup (IF self.lod # None THEN {"lod"} ELSE {})
              \cup (IF self.loq # None THEN {"loq"} ELSE {})
        |-> CASE key = "name" -> self.name
              [] key = "value" -> self.value
              [] key = "unit" -> self.unit
              [] key = "cdesId" -> self.cdes_id
              [] key = "casNumber" -> self.cas_number
              [] key = "lod" -> self.lod
              [] key = "loq" -> self.loq]

FIXED_TERPENE_FIELDS ==
    <<"myrcene", "limonene", "caryophyllene", "pinene", "linalool",
      "humulene", "terpinolene", "ocimene", "bisabolol">>

\* TerpeneProfile(): every field at its default (amounts in tenths of a
\* percent)
TerpeneProfile ==
    [myrcene |-> 0, limonene |-> 0, caryophyllene |-> 0, pinene |-> 0,
     linalool |-> 0, humulene |-> 0, terpinolene |-> 0, ocimene |-> 0,
     bisabolol |-> 0, terpenes |-> <<>>, total |-> None,
     dominant_terpene |-> None]

\* TerpeneProfile.to_vector(self)
to_vector(self) == [i \in 1..9 |-> self[FIXED_TERPENE_FIELDS[i]]]

\* sum() of a list of numbers
RECURSIVE sum(_)
sum(list) == IF list = <<>> THEN 0 ELSE Head(list) + sum(Tail(list))

\* TerpeneProfile.get_total(self)
get_total(self) ==
    IF self.total # None THEN self.total[1] ELSE sum(to_vector(self))

\* TerpeneProfile.get_dominant(self): max() returns the first largest entry
get_dominant(self) ==
    LET vector == to_vector(self)
        largest == max(Values(vector))
    IN  IF Truthy(self.dominant_terpene) THEN self.dominant_terpene
        ELSE IF largest = 0 THEN None
        ELSE Some(FIXED_TERPENE_FIELDS[
                      min({i \in 1..9 : vector[i] = largest})])

\* TerpeneProfile.to_dict(self)
TerpeneProfile_to_dict(self) ==
    [key \in Values(FIXED_TERPENE_FIELDS)
              \cup {"total", "dominantTerpene", "terpenes"}
        |-> CASE key = "total" -> get_total(self)
              [] key = "dominantTerpene" -> get_dominant(self)
              [] key = "terpenes" ->
                    [i \in 1..Len(self.terpenes) |->
                        TerpeneEntry_to_dict(self.terpenes[i])]
              [] OTHER -> self[key]]

\* TerpeneProfile(**kwargs) raises TypeError: a keyword names no field
TerpeneProfile_raises(kwargs) == ~(DOMAIN kwargs \subseteq DOMAIN TerpeneProfile)

\* TerpeneProfile(**kwargs)
TerpeneProfile_of(kwargs) ==
    [field \in DOMAIN TerpeneProfile |->
        IF field \in DOMAIN kwargs THEN kwargs[field]
        ELSE TerpeneProfile[field]]

-----------------------------------------------------------------------------
(* PhenotypeVariant.to_dict / from_dict *)

\* truth value of an Optional[int]: None and 0 are false
TruthyInt(opt) == opt # None /\ opt[1] # 0

PhenotypeVariantOptionalKeys ==
    {"phenotypeNumber", "discoveredBy", "discoveryYear", "strainTypeOverride",
     "indicaPct", "sativaPct", "distinguishingTraits", "typicalThcMin",
     "typicalThcMax", "typicalTerpeneProfile", "floweringDaysMin",
     "floweringDaysMax", "notes"}

\* the condition under which PhenotypeVariant.to_dict stores an optional key
PhenotypeVariant_emits(self, key) ==
    CASE key = "phenotypeNumber" -> self.phenotype_number # None
      [] key = "discoveredBy" -> Truthy(self.discovered_by)
      [] key = "discoveryYear" -> TruthyInt(self.discovery_year)
      [] key = "strainTypeOverride" -> self.strain_type_override # None
      [] key = "indicaPct" -> self.indica_pct # None
      [] key = "sativaPct" -> self.sativa_pct # None
      [] key = "distinguishingTraits" -> self.distinguishing_traits # <<>>
      [] key = "typicalThcMin" -> self.typical_thc_min # None
      [] key = "typicalThcMax" -> self.typical_thc_max # None
      [] key = "typicalTerpeneProfile" -> self.typical_terpene_profile # None
      [] key = "floweringDaysMin" -> self.flowering_days_min # None
      [] key = "floweringDaysMax" -> self.flowering_days_max # None
      [] key = "notes" -> Truthy(self.notes)

\* the value PhenotypeVariant.to_dict stores under a key
PhenotypeVariant_entry(self, key) ==
    CASE key = "phenotypeName" -> self.phenotype_name
      [] key = "isCloneOnly" -> self.is_clone_only
      [] key = "phenotypeNumber" -> self.phenotype_number
      [] key = "discoveredBy" -> self.discovered_by
      [] key = "discoveryYear" -> self.discovery_year
      [] key = "strainTypeOverride" -> self.strain_type_override[1]
      [] key = "indicaPct" -> self.indica_pct
      [] key = "sativaPct" -> self.sativa_pct
      [] key = "distinguishingTraits" -> self.distinguishing_traits
      [] key = "typicalThcMin" -> self.typical_thc_min
      [] key = "typicalThcMax" -> self.typical_thc_max
      [] key = "typicalTerpeneProfile" ->
            TerpeneProfile_to_dict(self.typical_terpene_profile[1])
      [] key = "floweringDaysMin" -> self.flowering_days_min
      [] key = "floweringDaysMax" -> self.flowering_days_max
      [] key = "notes" -> self.notes

\* PhenotypeVariant.to_dict(self)
PhenotypeVariant_to_dict(self) ==
    [key \in {"phenotypeName", "isCloneOnly"}
              \cup {k \in PhenotypeVariantOptionalKeys :
                       PhenotypeVariant_emits(self, k)}
        |-> PhenotypeVariant_entry(self, key)]

\* PhenotypeVariant.from_dict(data)
PhenotypeVariant_from_dict(data) ==
    IF "phenotypeName" \notin DOMAIN data THEN KeyError
    ELSE IF enum_given(data, "strainTypeOverride")
            /\ enum_raises(StrainType, data["strainTypeOverride"])
    THEN ValueError
    ELSE IF dict_given(data, "typicalTerpeneProfile")
            /\ TerpeneProfile_raises(data["typicalTerpeneProfile"])
    THEN TypeError
    ELSE [phenotype_name |-> data["phenotypeName"],
          phenotype_number |-> get(data, "phenotypeNumber"),
          discovered_by |-> get(data, "discoveredBy"),
          discovery_year |-> get(data, "discoveryYear"),
          strain_type_override |->
              IF enum_given(data, "strainTypeOverride")
              THEN Some(data["strainTypeOverride"]) ELSE None,
          indica_pct |-> get(data, "indicaPct"),
          sativa_pct |-> get(data, "sativaPct"),
          distinguishing_traits |-> get_default(data, "distinguishingTraits",
                                                <<>>),
          typical_thc_min |-> get(data, "typicalThcMin"),
          typical_thc_max |-> get(data, "typicalThcMax"),
          typical_cbd_min |-> get(data, "typicalCbdMin"),
          typical_cbd_max |-> get(data, "typicalCbdMax"),
          typical_terpene_profile |->
              IF dict_given(data, "typicalTerpeneProfile")
              THEN Some(TerpeneProfile_of(data["typicalTerpeneProfile"]))
              ELSE None,
          flowering_days_min |-> get(data, "floweringDaysMin"),
          flowering_days_max |-> get(data, "floweringDaysMax"),
          yield_indoor_g_m2 |-> get(data, "yieldIndoorGM2"),
          yield_outdoor_g_plant |-> get(data, "yieldOutdoorGPlant"),
          notes |-> get(data, "notes"),
          is_clone_only |-> get_default(data, "isCloneOnly", FALSE)]

-----------------------------------------------------------------------------
(* GeneticsProfile.to_dict / from_dict *)

\* the key of the wire format and the field of GeneticsProfile it carries
WireKeys ==
    [parent1 |-> "parent_1", parent2 |-> "parent_2",
     additionalParents |-> "additional_parents",
     lineageText |-> "lineage_text", breeder |-> "breeder",
     breederUrl |-> "breeder_url", originalBreeder |-> "original_breeder",
     originYear |-> "origin_year", originLocation |-> "origin_location",
     indicaPct |-> "indica_pct", sativaPct |-> "sativa_pct",
     ruderalisPct |-> "ruderalis_pct",
     breedingTechnique |-> "breeding_technique", generation |-> "generation",
     stability |-> "stability", isFeminized |-> "is_feminized",
     isAutoflower |-> "is_autoflower", isCloneOnly |-> "is_clone_only",
     lineage |-> "lineage", phenotypes |-> "phenotypes",
     selectedPhenotype |-> "selected_phenotype", sources |-> "sources",
     primarySource |-> "primary_source", confidence |-> "confidence",
     lastVerified |-> "last_verified", awards |-> "awards",
     cupWins |-> "cup_wins", geneticMarkers |-> "genetic_markers",
     chemotype |-> "chemotype", metadata |-> "metadata", tags |-> "tags"]

\* bug variant: isCloneOnly is always written, as the nested to_dict do
emits_clone_only_always(self, key) ==
    CASE key \in {"parent1", "parent2", "lineageText", "breeder",
                  "breederUrl", "originalBreeder", "originLocation",
                  "generation", "selectedPhenotype", "primarySource",
                  "chemotype"} -> Truthy(self[WireKeys[key]])
      [] key = "originYear" -> TruthyInt(self.origin_year)
      [] key \in {"indicaPct", "sativaPct", "ruderalisPct", "isFeminized",
                  "isAutoflower", "lastVerified"} ->
            self[WireKeys[key]] # None
      [] key \in {"breedingTechnique", "stability", "confidence"} ->
            self[WireKeys[key]] # "unknown"
      [] key = "isCloneOnly" -> TRUE
      [] key \in {"additionalParents", "lineage", "phenotypes", "sources",
                  "awards", "cupWins", "tags"} -> self[WireKeys[key]] # <<>>
      [] key \in {"geneticMarkers", "metadata"} ->
            DOMAIN self[WireKeys[key]] # {}

\* the condition under which GeneticsProfile.to_dict stores a key
emits(self, key) ==
    CASE key \in {"parent1", "parent2", "lineageText", "breeder",
                  "breederUrl", "originalBreeder", "originLocation",
                  "generation", "selectedPhenotype", "primarySource",
                  "chemotype"} -> Truthy(self[WireKeys[key]])
      [] key = "originYear" -> TruthyInt(self.origin_year)
      [] key \in {"indicaPct", "sativaPct", "ruderalisPct", "isFeminized",
                  "isAutoflower", "lastVerified"} ->
            self[WireKeys[key]] # None
      [] key \in {"breedingTechnique", "stability", "confidence"} ->
            self[WireKeys[key]] # "unknown"
      [] key = "isCloneOnly" -> self.is_clone_only
      [] key \in {"additionalParents", "lineage", "phenotypes", "sources",
                  "awards", "cupWins", "tags"} -> self[WireKeys[key]] # <<>>
      [] key \in {"geneticMarkers", "metadata"} ->
            DOMAIN self[WireKeys[key]] # {}

\* the value GeneticsProfile.to_dict stores under a key
entry(self, key) ==
    CASE key = "$schema" ->
            "https://cdes.terprint.com/v1.2/genetics-profile.schema.json"
      [] key = "cdesVersion" -> "1.2.0"
      [] key = "lineage" ->
            [i \in 1..Len(self.lineage) |-> LineageNode_to_dict(self.lineage[i])]
      [] key = "phenotypes" ->
            [i \in 1..Len(self.phenotypes) |->
                PhenotypeVariant_to_dict(self.phenotypes[i])]
      [] key = "sources" ->
            [i \in 1..Len(self.sources) |->
                GeneticsSource_to_dict(self.sources[i])]
      [] key = "lastVerified" -> Some(isoformat(self.last_verified[1]))
      [] OTHER -> self[WireKeys[key]]

\* GeneticsProfile.to_dict(self)
to_dict(self) ==
    [key \in {"$schema", "cdesVersion"}
              \cup {k \in DOMAIN WireKeys : emits(self, k)}
        |-> entry(self, key)]

\* GeneticsProfile.from_dict(data)
from_dict(data) ==
    LET lineage == [i \in 1..Len(get_default(data, "lineage", <<>>)) |->
                       LineageNode_from_dict(data["lineage"][i])]
        phenotypes == [i \in 1..Len(get_default(data, "phenotypes", <<>>)) |->
                          PhenotypeVariant_from_dict(data["phenotypes"][i])]
        sources == [i \in 1..Len(get_default(data, "sources", <<>>)) |->
                       GeneticsSource_from_dict(data["sources"][i])]
        enum(key) == IF enum_given(data, key) THEN data[key] ELSE "unknown"
    IN  IF enum_given(data, "breedingTechnique")
           /\ enum_raises(BreedingTechnique, data["breedingTechnique"])
        THEN ValueError
        ELSE IF enum_given(data, "stability")
                /\ enum_raises(GeneticsStability, data["stability"])
        THEN ValueError
        ELSE IF any_raises(lineage) THEN first_exception(lineage)
        ELSE IF any_raises(phenotypes) THEN first_exception(phenotypes)
        ELSE IF any_raises(sources) THEN first_exception(sources)
        ELSE IF enum_given(data, "confidence")
                /\ enum_raises(GeneticsConfidence, data["confidence"])
        THEN ValueError
        ELSE IF iso_field_raises(data, "lastVerified") THEN ValueError
        ELSE [parent_1 |-> get(data, "parent1"),
              parent_2 |-> get(data, "parent2"),
              breeder |-> get(data, "breeder"),
              breeder_url |-> get(data, "breederUrl"),
              original_breeder |-> get(data, "originalBreeder"),
              origin_year |-> get(data, "originYear"),
              origin_location |-> get(data, "originLocation"),
              indica_pct |-> get(data, "indicaPct"),
              sativa_pct |-> get(data, "sativaPct"),
              ruderalis_pct |-> get(data, "ruderalisPct"),
              breeding_technique |-> enum("breedingTechnique"),
              generation |-> get(data, "generation"),
              stability |-> enum("stability"),
              is_feminized |-> get(data, "isFeminized"),
              is_autoflower |-> get(data, "isAutoflower"),
              is_clone_only |-> get_default(data, "isCloneOnly", FALSE),
              lineage |-> lineage,
              lineage_text |-> get(data, "lineageText"),
              additional_parents |-> get_default(data, "additionalParents",
                                                 <<>>),
              phenotypes |-> phenotypes,
              selected_phenotype |-> get(data, "selectedPhenotype"),
              sources |-> sources,
              primary_source |-> get(data, "primarySource"),
              confidence |-> enum("confidence"),
              last_verified |-> iso_field(data, "lastVerified"),
              awards |-> get_default(data, "awards", <<>>),
              cup_wins |-> get_default(data, "cupWins", <<>>),
              genetic_markers |-> get_default(data, "geneticMarkers",
                                              EmptyDict),
              chemotype |-> get(data, "chemotype"),
              metadata |-> get_default(data, "metadata", EmptyDict),
              tags |-> get_default(data, "tags", <<>>)]

-----------------------------------------------------------------------------
(* Profiles constructed, serialized and deserialized *)

\* deepest nesting of children in the lineage nodes tried
MaxNesting == 2

\* base with one field given: field_value is <<field, value>>
Edited(base, field_value) ==
    [base EXCEPT ![field_value[1]] = field_value[2]]

\* base with one field given, for every field and value of field_values
Edits(base, field_values) == {Edited(base, fv) : fv \in field_values}

\* values of an Optional[str] field: the empty string and a text
Texts(field) == {<<field, Some(<<>>)>>, <<field, Some(<<"v">>)>>}

\* values of an Optional number field: zero and another number
Numbers(field) == {<<field, Some(0)>>, <<field, Some(60)>>}

\* sources: GeneticsSource("Leafly") and its variants in one field
SourceValues ==
    Edits(GeneticsSource("Leafly", None, None),
          {<<"source_type", "lab">>, <<"confidence", "high">>,
           <<"retrieved_at", Some(12)>>, <<"verification_date", Some(3)>>}
          \cup Texts("source_url") \cup Texts("source_id")
          \cup Texts("verified_by") \cup Texts("notes"))
    \cup {GeneticsSource("Leafly", None, None)}

\* lineage nodes: LineageNode("OG Kush") and its variants in one field, the
\* children nested up to depth n
RECURSIVE NodeValues(_)
NodeValues(n) ==
    Edits(LineageNode("OG Kush", 1, <<>>),
          {<<"relationship", "mother">>, <<"generation", 2>>,
           <<"strain_type", Some("hybrid")>>, <<"is_verified", TRUE>>}
          \cup Texts("strain_id") \cup Texts("breeder")
          \cup Numbers("contribution_pct")
          \cup {<<"source", Some(s)>> : s \in SourceValues}
          \cup (IF n <= 1 THEN {}
                ELSE {<<"children", <<c>> >> : c \in NodeValues(n - 1)}))
    \cup {LineageNode("OG Kush", 1, <<>>)}

\* terpene profiles: the default one and one with a dominant terpene
TerpeneProfileValues ==
    {TerpeneProfile, [TerpeneProfile EXCEPT !.limonene = 5]}

\* phenotype variants: PhenotypeVariant("GDP #4", 4) and its variants in one
\* field
PhenotypeValues ==
    Edits(PhenotypeVariant("GDP #4", Some(4)),
          {<<"phenotype_number", None>>,
           <<"strain_type_override", Some("indica")>>,
           <<"distinguishing_traits", <<"purple">> >>,
           <<"is_clone_only", TRUE>>}
          \cup Texts("discovered_by") \cup Texts("notes")
          \cup Numbers("discovery_year") \cup Numbers("indica_pct")
          \cup Numbers("sativa_pct") \cup Numbers("typical_thc_min")
          \cup Numbers("typical_thc_max") \cup Numbers("typical_cbd_min")
          \cup Numbers("typical_cbd_max") \cup Numbers("flowering_days_min")
          \cup Numbers("flowering_days_max") \cup Numbers("yield_indoor_g_m2")
          \cup Numbers("yield_outdoor_g_plant")
          \cup {<<"typical_terpene_profile", Some(t)>> :
                   t \in TerpeneProfileValues})
    \cup {PhenotypeVariant("GDP #4", Some(4))}

\* a keyword argument of GeneticsProfile(...): a field and the value given,
\* other than the default but for is_clone_only=False
FieldValues ==
    Texts("parent_1") \cup Texts("parent_2") \cup Texts("lineage_text")
    \cup Texts("breeder") \cup Texts("breeder_url")
    \cup Texts("original_breeder") \cup Texts("origin_location")
    \cup Texts("generation") \cup Texts("selected_phenotype")
    \cup Texts("primary_source") \cup Texts("chemotype")
    \cup Numbers("origin_year") \cup Numbers("indica_pct")
    \cup Numbers("sativa_pct") \cup Numbers("ruderalis_pct")
    \cup {<<"breeding_technique", "f1">>, <<"stability", "stable">>,
          <<"confidence", "high">>,
          <<"is_clone_only", FALSE>>, <<"is_clone_only", TRUE>>,
          <<"is_feminized", Some(FALSE)>>, <<"is_feminized", Some(TRUE)>>,
          <<"is_autoflower", Some(FALSE)>>, <<"is_autoflower", Some(TRUE)>>,
          <<"last_verified", Some(7)>>,
          <<"additional_parents", <<<<"C">>>> >>,
          <<"awards", <<"Cannabis Cup 2015">> >>,
          <<"cup_wins", <<[year |-> 2015]>> >>,
          <<"genetic_markers", [thcas |-> TRUE]>>,
          <<"metadata", [origin |-> "import"]>>,
          <<"tags", <<"dessert">> >>}
    \cup {<<"lineage", <<n>> >> : n \in NodeValues(MaxNesting)}
    \cup {<<"phenotypes", <<p>> >> : p \in PhenotypeValues}
    \cup {<<"sources", <<s>> >> : s \in SourceValues}

\* a profile with a nested lineage, a source, a phenotype and every enum set
RichProfile ==
    [GeneticsProfile EXCEPT
        !.parent_1 = Some(<<"A">>),
        !.breeding_technique = "f1", !.stability = "stable",
        !.confidence = "high", !.last_verified = Some(7),
        !.lineage =
            <<[LineageNode("OG Kush", 1,
                   <<[LineageNode("Chemdawg", 2, <<>>) EXCEPT
                        !.source = Some(GeneticsSource("Leafly", Some(12),
                                                       None))]>>)
               EXCEPT !.strain_type = Some("hybrid")]>>,
        !.phenotypes =
            <<[PhenotypeVariant("GDP #4", Some(4)) EXCEPT
                 !.strain_type_override = Some("indica")]>>,
        !.sources = <<GeneticsSource("SeedFinder", None, None)>>]

RichMap == to_dict(RichProfile)

\* RichMap with one key missing, at the top or in a nested map
MapsMissingKey ==
    {Without(RichMap, k) : k \in DOMAIN RichMap}
    \cup {[RichMap EXCEPT !.lineage[1] = Without(@, k)] :
             k \in DOMAIN RichMap.lineage[1]}
    \cup {[RichMap EXCEPT !.lineage[1].children[1] = Without(@, k)] :
             k \in DOMAIN RichMap.lineage[1].children[1]}
    \cup {[RichMap EXCEPT !.lineage[1].children[1].source = Without(@, k)] :
             k \in DOMAIN RichMap.lineage[1].children[1].source}
    \cup {[RichMap EXCEPT !.phenotypes[1] = Without(@, k)] :
             k \in DOMAIN RichMap.phenotypes[1]}
    \cup {[RichMap EXCEPT !.sources[1] = Without(@, k)] :
             k \in DOMAIN RichMap.sources[1]}

\* enum texts on the wire: a value of no enum, the empty text
OtherEnumTexts == {"bogus", ""}

\* RichMap with one enum-valued key holding such a text
MapsOtherEnum ==
    UNION {{[RichMap EXCEPT !.breedingTechnique = v],
            [RichMap EXCEPT !.stability = v],
            [RichMap EXCEPT !.confidence = v],
            [RichMap EXCEPT !.lineage[1].relationship = v],
            [RichMap EXCEPT !.lineage[1].strainType = v],
            [RichMap EXCEPT !.lineage[1].children[1].source.confidence = v],
            [RichMap EXCEPT !.phenotypes[1].strainTypeOverride = v],
            [RichMap EXCEPT !.sources[1].confidence = v]} :
           v \in OtherEnumTexts}

WireMaps == {EmptyDict, RichMap} \cup MapsMissingKey \cup MapsOtherEnum

InitWire ==
    /\ profile = GeneticsProfile
    /\ input = EmptyDict
    /\ call = NoCall
    /\ result = None

\* GeneticsProfile(...): a profile is constructed
Construct(p) ==
    /\ call = NoCall
    /\ profile' = p
    /\ call' = [op |-> "GeneticsProfile"]
    /\ UNCHANGED <<input, result>>

\* profile.to_dict()
ToDict ==
    /\ call.op = "GeneticsProfile"
    /\ result' = to_dict(profile)
    /\ call' = [op |-> "to_dict"]
    /\ UNCHANGED <<profile, input>>

\* GeneticsProfile.from_dict(profile.to_dict())
FromDictSerialized ==
    /\ call.op = "to_dict"
    /\ input' = result
    /\ result' = from_dict(result)
    /\ call' = [op |-> "from_dict", round_trip |-> TRUE]
    /\ UNCHANGED profile

\* GeneticsProfile.from_dict(data) of a map received
FromDict(data) ==
    /\ call = NoCall
    /\ input' = data
    /\ result' = from_dict(data)
    /\ call' = [op |-> "from_dict", round_trip |-> FALSE]
    /\ UNCHANGED profile

NextWire ==
    \/ /\ call = NoCall
       /\ \E first \in FieldValues, second \in FieldValues :
              Construct(Edited(Edited(GeneticsProfile, first), second))
    \/ ToDict
    \/ FromDictSerialized
    \/ \E data \in WireMaps : FromDict(data)

SpecWire == InitWire /\ [][NextWire]_vars

-----------------------------------------------------------------------------
(* Claims about the wire format *)

\* C13: for every profile P, from_dict(P.to_dict()) succeeds and equals P
\* field for field, nested lineage nodes, sources and phenotype variants
\* included.
C13_RoundTrip ==
    (call.op = "from_dict" /\ call.round_trip) =>
        (~IsException(result) /\ result = profile)

\* the keys that carry an Optional[str]
TextKeys ==
    {"parent1", "parent2", "lineageText", "breeder", "breederUrl",
     "originalBreeder", "originLocation", "generation", "selectedPhenotype",
     "primarySource", "chemotype"}

SchemaKeys == {"$schema", "cdesVersion"}

\* C14: in the top-level map of GeneticsProfile.to_dict no key carries a
\* field that holds its default, an empty or the unknown value (so no key
\* holds null or an empty text); the default profile serializes to exactly
\* $schema and cdesVersion, and every map holds those two keys.
C14_OmitWhenDefault ==
    call.op = "to_dict" =>
        /\ SchemaKeys \subseteq DOMAIN result
        /\ DOMAIN result \subseteq SchemaKeys \cup DOMAIN WireKeys
        /\ \A k \in DOMAIN result \ SchemaKeys :
              /\ profile[WireKeys[k]] # GeneticsProfile[WireKeys[k]]
              /\ k \in TextKeys => result[k] \notin {None, Some(<<>>)}
        /\ profile = GeneticsProfile => DOMAIN result = SchemaKeys

\* C14 witness: of a profile with parent_1 = "" and is_feminized = False only
\* isFeminized is written
C14_Witness ==
    /\ call.op = "to_dict"
    /\ profile.parent_1 = Some(<<>>)
    /\ profile.is_feminized = Some(FALSE)
    /\ DOMAIN result = SchemaKeys \cup {"isFeminized"}
    /\ result["isFeminized"] = Some(FALSE)

\* the default profile was serialized
C14_DefaultWitness ==
    /\ call.op = "to_dict"
    /\ profile = GeneticsProfile
    /\ DOMAIN result = SchemaKeys

\* the defaults that the nested classes declare for the fields their to_dict
\* writes without a test
NestedDefaults ==
    [relationship |-> "parent", generation |-> 1, isVerified |-> FALSE,
     sourceType |-> "database", confidence |-> "medium",
     isCloneOnly |-> FALSE]

\* a nested map holds no key whose value is the default of its field
OmitsDefaults(map) ==
    \A k \in DOMAIN map \cap DOMAIN NestedDefaults :
        map[k] # NestedDefaults[k]

\* the same of the map of a lineage node, of its source and of its children
RECURSIVE NodeOmitsDefaults(_)
NodeOmitsDefaults(map) ==
    /\ OmitsDefaults(map)
    /\ "source" \in DOMAIN map => OmitsDefaults(map.source)
    /\ "children" \in DOMAIN map =>
          \A i \in DOMAIN map.children : NodeOmitsDefaults(map.children[i])

\* C15: in the map of GeneticsProfile.to_dict the maps of the lineage nodes,
\* sources and phenotype variants hold no key whose field holds its default
\* (relationship parent, generation 1, is_verified false, source_type
\* database, confidence medium, is_clone_only false).
C15_NestedOmitWhenDefault ==
    call.op = "to_dict" =>
        /\ "lineage" \in DOMAIN result =>
              \A i \in DOMAIN result.lineage :
                  NodeOmitsDefaults(result.lineage[i])
        /\ "sources" \in DOMAIN result =>
              \A i \in DOMAIN result.sources :
                  OmitsDefaults(result.sources[i])
        /\ "phenotypes" \in DOMAIN result =>
              \A i \in DOMAIN result.phenotypes :
                  OmitsDefaults(result.phenotypes[i])

\* the text under an enum-valued key is the value of no member
Unrecognized(Enum, map, key) == key \in DOMAIN map /\ map[key] \notin Enum

\* C16: from_dict of a map in which an enum-valued key (breedingTechnique,
\* stability, confidence, relationship, strainType, strainTypeOverride), at
\* the top or in a nested node, source or phenotype, holds a string that is
\* no value of the enum does not fail, and the field of the object returned
\* is the unknown variant of the enum.
C16_UnknownEnumDegrades ==
    (call.op = "from_dict" /\ input \in MapsOtherEnum) =>
        /\ ~IsException(result)
        /\ Unrecognized(BreedingTechnique, input, "breedingTechnique")
              => result.breeding_technique = "unknown"
        /\ Unrecognized(GeneticsStability, input, "stability")
              => result.stability = "unknown"
        /\ Unrecognized(GeneticsConfidence, input, "confidence")
              => result.confidence = "unknown"
        /\ Unrecognized(LineageRelationship, input.lineage[1], "relationship")
              => result.lineage[1].relationship = "unknown"
        /\ Unrecognized(StrainType, input.lineage[1], "strainType")
              => result.lineage[1].strain_type = Some("unknown")
        /\ Unrecognized(GeneticsConfidence,
                        input.lineage[1].children[1].source, "confidence")
              => result.lineage[1].children[1].source[1].confidence
                    = "unknown"
        /\ Unrecognized(StrainType, input.phenotypes[1], "strainTypeOverride")
              => result.phenotypes[1].strain_type_override = Some("unknown")
        /\ Unrecognized(GeneticsConfidence, input.sources[1], "confidence")
              => result.sources[1].confidence = "unknown"

\* the map of a lineage node, or of a node below it, lacks strainName, or
\* the map of its source lacks sourceName
RECURSIVE NodeLacksRequired(_)
NodeLacksRequired(map) ==
    \/ "strainName" \notin DOMAIN map
    \/ "source" \in DOMAIN map /\ "sourceName" \notin DOMAIN map.source
    \/ \E i \in DOMAIN get_default(map, "children", <<>>) :
          NodeLacksRequired(map.children[i])

\* some nested map of the wire map lacks its required key
LacksRequired(map) ==
    \/ \E i \in DOMAIN get_default(map, "lineage", <<>>) :
          NodeLacksRequired(map.lineage[i])
    \/ \E i \in DOMAIN get_default(map, "sources", <<>>) :
          "sourceName" \notin DOMAIN map.sources[i]
    \/ \E i \in DOMAIN get_default(map, "phenotypes", <<>>) :
          "phenotypeName" \notin DOMAIN map.phenotypes[i]

\* C17: from_dict tolerates the absence of every optional key and fails
\* exactly when a nested lineage node lacks strainName, a source lacks
\* sourceName or a phenotype lacks phenotypeName, at any depth, returning no
\* profile then; from_dict of the empty map is the default profile. (Stated
\* of the maps whose enum-valued keys hold values of their enums; C16 is
\* about the others.)
C17_FailsExactlyOnMissingRequired ==
    (call.op = "from_dict" /\ input \notin MapsOtherEnum) =>
        /\ IsException(result) <=> LacksRequired(input)
        /\ input = EmptyDict => result = GeneticsProfile

\* from_dict fails with KeyError whenever a required key is missing
C17_MissingRequiredFails ==
    (call.op = "from_dict" /\ LacksRequired(input)) => result = KeyError

\* from_dict of a map received that lacks optional keys only returns a profile
C17_AbsentOptionalTolerated ==
    (call.op = "from_dict" /\ ~call.round_trip /\ input \notin MapsOtherEnum
        /\ ~LacksRequired(input)) => ~IsException(result)

-----------------------------------------------------------------------------
(* The four text-parsing operations on arbitrary input *)

\* longest text handed to the parsers, besides the oversize name
MaxTotalLen == 3

\* whitespace, separator characters, '#', digits and letters
TotalChars == {" ", "x", "#", "1", "a"}

\* the empty text, whitespace only, separators only, '#' and digits only,
\* texts with no structure
TotalTexts == SeqsUpTo(TotalChars, MaxTotalLen)

\* a name, or a line whose name part is that name, with more digits than
\* int() accepts
TotalNames == TotalTexts \cup {OversizeName}

InitTotal ==
    /\ profile = GeneticsProfile
    /\ input = <<>>
    /\ call = NoCall
    /\ result = None

\* parse_strain_name(name)
ParseStrainNameOf(name) ==
    /\ call = NoCall
    /\ input' = name
    /\ result' = parse_strain_name(name)
    /\ call' = [op |-> "parse_strain_name"]
    /\ UNCHANGED profile

\* parse_genetics_line(line)
ParseGeneticsLineOf(line) ==
    /\ call = NoCall
    /\ input' = line
    /\ result' = parse_genetics_line(line)
    /\ call' = [op |-> "parse_genetics_line"]
    /\ UNCHANGED profile

\* bulk_parse_genetics([line])
BulkParseGeneticsOf(line) ==
    /\ call = NoCall
    /\ input' = <<line>>
    /\ result' = bulk_parse_genetics(<<line>>)
    /\ call' = [op |-> "bulk_parse_genetics"]
    /\ UNCHANGED profile

\* GeneticsProfile.from_simple(genetics_string)
FromSimpleOf(genetics_string) ==
    /\ call = NoCall
    /\ input' = genetics_string
    /\ result' = from_simple(genetics_string)
    /\ call' = [op |-> "from_simple"]
    /\ UNCHANGED profile

NextTotal ==
    \/ \E name \in TotalNames : ParseStrainNameOf(name)
    \/ \E line \in TotalNames : ParseGeneticsLineOf(line)
    \/ \E line \in TotalTexts : BulkParseGeneticsOf(line)
    \/ \E text \in TotalTexts : FromSimpleOf(text)

SpecTotal == InitTotal /\ [][NextTotal]_vars

-----------------------------------------------------------------------------
(* Claims about totality *)

TextParsers ==
    {"parse_strain_name", "parse_genetics_line", "bulk_parse_genetics",
     "from_simple"}

\* C18: parse_strain_name, parse_genetics_line, bulk_parse_genetics and
\* from_simple return a result for every input string and none raises.
C18_ParsersTotal ==
    call.op \in TextParsers => ~IsException(result)

\* on every text of up to MaxTotalLen characters the four return a result
C18_TotalOnShortTexts ==
    (call.op \in TextParsers /\ Len(input) <= MaxTotalLen) =>
        ~IsException(result)

-----------------------------------------------------------------------------
(* get_lineage_depth on LineageNode objects that refer to each other *)

(* A children list holds references to LineageNode objects, and a caller can
   append to it an object that is already above it.  Here an object is its
   identity, "input" maps the identity of each object to its children list
   and profile.lineage lists identities. *)

\* LineageNode objects the caller holds
MaxObjects == 2

\* children.append calls the caller makes
MaxAppends == 3

\* nested _depth calls the interpreter's stack holds
MaxFrames == 6

Objects == 1..MaxObjects

RecursionError == [raises |-> "RecursionError"]

\* "max(_depth(c) for c in nodes)": the nodes are visited in list order and
\* the first call that raises ends the evaluation; best is the largest depth
\* seen so far
RECURSIVE max_depth_of(_, _, _, _)
RECURSIVE _depth_of(_, _, _)
max_depth_of(objects, nodes, frames, best) ==
    IF nodes = <<>>
    THEN Returned(best)
    ELSE LET d == _depth_of(objects, Head(nodes), frames)
         IN  IF IsException(d)
             THEN d
             ELSE max_depth_of(objects, Tail(nodes), frames,
                               IF d.returns > best THEN d.returns ELSE best)

\* _depth(node) entered with frames - 1 calls of _depth above it
_depth_of(objects, node, frames) ==
    IF frames > MaxFrames
    THEN RecursionError
    ELSE IF objects[node] = <<>>
    THEN Returned(1)
    ELSE LET deepest == max_depth_of(objects, objects[node], frames + 1, 0)
         IN  IF IsException(deepest)
             THEN deepest
             ELSE Returned(1 + deepest.returns)

\* self.get_lineage_depth() when self.lineage refers to the objects
get_lineage_depth_of(objects, self) ==
    IF self.lineage = <<>>
    THEN Returned(IF Truthy(self.parent_1) \/ Truthy(self.parent_2)
                  THEN 1 ELSE 0)
    ELSE max_depth_of(objects, self.lineage, 1, 0)

\* children lists of all objects, in total
Appended(objects) == sum([n \in Objects |-> Len(objects[n])])

InitObjects ==
    /\ \E p1 \in {None, Some(<<"A">>)}, roots \in SeqsUpTo(Objects, 2) :
           profile = [GeneticsProfile EXCEPT !.parent_1 = p1,
                                             !.lineage = roots]
    /\ input = [n \in Objects |-> <<>>]
    /\ call = NoCall
    /\ result = None

\* node.children.append(child)
AppendChild(node, child) ==
    /\ call = NoCall
    /\ Appended(input) < MaxAppends
    /\ input' = [input EXCEPT ![node] = Append(@, child)]
    /\ UNCHANGED <<profile, call, result>>

\* profile.get_lineage_depth()
GetLineageDepthOf ==
    /\ call = NoCall
    /\ result' = get_lineage_depth_of(input, profile)
    /\ call' = [op |-> "get_lineage_depth"]
    /\ UNCHANGED <<profile, input>>

NextObjects ==
    \/ \E node \in Objects, child \in Objects : AppendChild(node, child)
    \/ GetLineageDepthOf

SpecObjects == InitObjects /\ [][NextObjects]_vars

-----------------------------------------------------------------------------
(* Claims about get_lineage_depth on malformed lineages *)

\* the objects reached from a set of objects through children lists
RECURSIVE ReachedFrom(_, _)
ReachedFrom(objects, from) ==
    LET more == from \cup UNION {Values(objects[n]) : n \in from}
    IN  IF more = from THEN from ELSE ReachedFrom(objects, more)

\* some object of the lineage is reachable from its own children
Cyclic(objects, self) ==
    \E n \in ReachedFrom(objects, Values(self.lineage)) :
        n \in ReachedFrom(objects, Values(objects[n]))

\* the tree of LineageNode values below an object of an acyclic lineage
RECURSIVE TreeOf(_, _)
TreeOf(objects, node) ==
    LineageNode("OG Kush", 1,
                [i \in 1..Len(objects[node]) |->
                    TreeOf(objects, objects[node][i])])

\* C19: get_lineage_depth terminates on every finite acyclic lineage, and on
\* a lineage in which an object is reachable from its own children it signals
\* a condition of its own, distinct from the exhaustion of the stack.
C19_CycleSignalled ==
    call.op = "get_lineage_depth" =>
        IF Cyclic(input, profile)
        THEN IsException(result) /\ result # RecursionError
        ELSE ~IsException(result)

\* on an acyclic lineage get_lineage_depth returns the depth of the tree
C19_AcyclicDepth ==
    (call.op = "get_lineage_depth" /\ ~Cyclic(input, profile)) =>
        result = Returned(get_lineage_depth(
                     [profile EXCEPT !.lineage =
                         [i \in 1..Len(profile.lineage) |->
                             TreeOf(input, profile.lineage[i])]]))

\* on a cyclic lineage get_lineage_depth ends when the stack is exhausted
C19_CycleExhaustsStack ==
    (call.op = "get_lineage_depth" /\ Cyclic(input, profile)) =>
        result = RecursionError

-----------------------------------------------------------------------------
(* Strain.get_genetics_string, Strain.get_parents and
   GeneticsProfile.get_parent_string *)

\* sep.join(list)
RECURSIVE join(_, _)
join(sep, list) ==
    IF list = <<>> THEN <<>>
    ELSE IF Len(list) = 1 THEN list[1]
    ELSE list[1] \o sep \o join(sep, Tail(list))

\* bug variant: the parents are joined with a single space
get_parent_string_single_space(self) ==
    IF Truthy(self.lineage_text) THEN self.lineage_text
    ELSE IF get_all_parents(self) = <<>> THEN None
    ELSE Some(join(<<" ">>, get_all_parents(self)))

\* self.get_parent_string() of a GeneticsProfile
get_parent_string(self) ==
    IF Truthy(self.lineage_text)
    THEN self.lineage_text
    ELSE LET parents0 == <<>>
             parents1 == IF Truthy(self.parent_1)
                         THEN Append(parents0, self.parent_1[1]) ELSE parents0
             parents2 == IF Truthy(self.parent_2)
                         THEN Append(parents1, self.parent_2[1]) ELSE parents1
             parents == parents2 \o self.additional_parents
         IN  IF parents = <<>> THEN None
             ELSE Some(join(DoubleSpace, parents))

\* self.get_genetics_string() of a Strain
get_genetics_string(self) ==
    IF Truthy(self.genetics) THEN self.genetics
    ELSE IF self.genetics_profile # None
    THEN get_parent_string(self.genetics_profile[1])
    ELSE None

\* bug variant: the tokens are not stripped
get_parents_loop_unstripped(genetics, seps) ==
    LET found == {i \in 1..Len(seps) : contains(genetics, seps[i])}
    IN  IF found = {} THEN None
        ELSE Some(split(genetics, seps[min(found)]))

\* "for sep in ['  ', ' x ', ' X ']: if sep in self.genetics: return [...]";
\* None when the loop ends without returning
RECURSIVE get_parents_loop(_, _)
get_parents_loop(genetics, seps) ==
    IF seps = <<>> THEN None
    ELSE IF contains(genetics, Head(seps))
         THEN Some(strip_each(split(genetics, Head(seps))))
         ELSE get_parents_loop(genetics, Tail(seps))

\* bug variant: the simple string is tokenized even when a profile is held
get_parents_string_first(self) ==
    LET returned == get_parents_loop(self.genetics[1],
                                     <<DoubleSpace, LowerX, UpperX>>)
    IN  IF Truthy(self.genetics) /\ returned # None
        THEN returned[1]
        ELSE IF self.genetics_profile # None
        THEN get_all_parents(self.genetics_profile[1])
        ELSE <<>>

\* self.get_parents() of a Strain; a GeneticsProfile object is always true
get_parents(self) ==
    IF self.genetics_profile # None
    THEN get_all_parents(self.genetics_profile[1])
    ELSE LET returned == get_parents_loop(self.genetics[1],
                                          <<DoubleSpace, LowerX, UpperX>>)
         IN  IF Truthy(self.genetics) /\ returned # None
             THEN returned[1]
             ELSE <<>>

\* longest additional_parents list of the profile a Strain holds
MaxStrainAdditional == 1

\* parent names: with a space at an end, with a double space inside, empty
FirstParents == {None, Some(<<>>), Some(<<"A">>), Some(<<"A", " ">>)}

SecondParents == {None, Some(<<"B">>), Some(<<" ", "B">>)}

MoreParents == {<<>>, <<"C">>, <<"C", " ", " ", "D">>}

\* the simple genetics string of a Strain: none, empty, one name, crosses
SimpleStrings ==
    {None, Some(<<>>), Some(<<"a">>), Some(<<"a", " ", " ", "b">>),
     Some(<<"a", " ", "x", " ", "b", " ", " ", "c">>)}

InitStrain ==
    /\ \E p1 \in FirstParents, p2 \in SecondParents,
          more \in SeqsUpTo(MoreParents, MaxStrainAdditional),
          text \in {None, Some(<<>>), Some(<<"T">>)} :
           profile = [GeneticsProfile EXCEPT !.parent_1 = p1, !.parent_2 = p2,
                                             !.additional_parents = more,
                                             !.lineage_text = text]
    /\ \E genetics \in SimpleStrings, held \in BOOLEAN :
           input = [Strain(<<"S">>) EXCEPT
                       !.genetics = genetics,
                       !.genetics_profile = IF held THEN Some(profile)
                                            ELSE None]
    /\ call = NoCall
    /\ result = None

\* strain.get_genetics_string()
GetGeneticsString ==
    /\ call = NoCall
    /\ result' = get_genetics_string(input)
    /\ call' = [op |-> "get_genetics_string"]
    /\ UNCHANGED <<profile, input>>

\* strain.get_parents()
GetParents ==
    /\ call = NoCall
    /\ result' = get_parents(input)
    /\ call' = [op |-> "get_parents"]
    /\ UNCHANGED <<profile, input>>

\* profile.get_parent_string()
GetParentString ==
    /\ call = NoCall
    /\ result' = get_parent_string(profile)
    /\ call' = [op |-> "get_parent_string"]
    /\ UNCHANGED <<profile, input>>

NextStrain == GetGeneticsString \/ GetParents \/ GetParentString

SpecStrain == InitStrain /\ [][NextStrain]_vars

-----------------------------------------------------------------------------
(* Claims about the derived genetics queries *)

\* C21: a Strain that holds a GeneticsProfile answers get_parents() with the
\* profile's get_all_parents() and get_genetics_string() with the profile's
\* parent string, whatever its simple string is; the simple string is used
\* only when no profile is held.
C21_ProfileTakesPrecedence ==
    /\ (call.op = "get_parents" /\ input.genetics_profile # None) =>
          result = get_all_parents(input.genetics_profile[1])
    /\ (call.op = "get_genetics_string" /\ input.genetics_profile # None) =>
          result = get_parent_string(input.genetics_profile[1])

\* get_parents() prefers the profile
C21_ParentsFromProfile ==
    (call.op = "get_parents" /\ input.genetics_profile # None) =>
        result = get_all_parents(input.genetics_profile[1])

-----------------------------------------------------------------------------
(* Claims about get_lineage_depth without a lineage tree *)

\* C22 as stated: with an empty lineage get_lineage_depth returns 1 whenever
\* parent_1, parent_2 or a non-empty additional_parents is set, and 0 only
\* when none is.
C22_DepthOfFlatParents ==
    (call.op = "get_lineage_depth" /\ call.before.lineage = <<>>) =>
        result = IF \/ Truthy(call.before.parent_1)
                    \/ Truthy(call.before.parent_2)
                    \/ call.before.additional_parents # <<>>
                 THEN 1 ELSE 0

\* C22 amended: with an empty lineage get_lineage_depth returns 1 exactly
\* when parent_1 or parent_2 is present and non-empty, and 0 otherwise,
\* whatever additional_parents holds.
C22_DepthOfPrimaryParents ==
    (call.op = "get_lineage_depth" /\ call.before.lineage = <<>>) =>
        result = IF \/ Truthy(call.before.parent_1)
                    \/ Truthy(call.before.parent_2)
                 THEN 1 ELSE 0

\* C22 witness: only additional_parents is set and the depth returned is 0
C22_Witness ==
    /\ call.op = "get_lineage_depth"
    /\ call.before.lineage = <<>>
    /\ call.before.parent_1 = None
    /\ call.before.parent_2 = None
    /\ call.before.additional_parents # <<>>
    /\ result = 0

-----------------------------------------------------------------------------
(* Claims about get_parent_string *)

\* a text holds a double space
HasDoubleSpace(text) == contains(text, DoubleSpace)

\* a text ends with a space
EndsWithSpace(text) == text # <<>> /\ text[Len(text)] = " "

\* the first two parts of the claim: lineage_text, when present, is returned
\* unchanged; otherwise the parents are joined in order with the double
\* space, and nothing is returned when there is no parent
ParentStringAsClaimed(self, string) ==
    IF Truthy(self.lineage_text)
    THEN string = self.lineage_text
    ELSE IF get_all_parents(self) = <<>>
    THEN string = None
    ELSE string = Some(join(DoubleSpace, get_all_parents(self)))

\* C23 as stated: get_parent_string returns lineage_text when present, else
\* the parents joined with the double space (absent without parents), and
\* the joined text split on the double space is get_all_parents() whenever
\* no parent name holds a double space.
C23_ParentString ==
    call.op = "get_parent_string" =>
        /\ ParentStringAsClaimed(profile, result)
        /\ (/\ ~Truthy(profile.lineage_text)
            /\ result # None
            /\ \A i \in DOMAIN get_all_parents(profile) :
                  ~HasDoubleSpace(get_all_parents(profile)[i]))
              => split(result[1], DoubleSpace) = get_all_parents(profile)

\* C23 amended: the same, the joined text splitting back to
\* get_all_parents() whenever no parent name holds a double space or ends
\* with a space.
C23_ParentStringSplitsBack ==
    call.op = "get_parent_string" =>
        /\ ParentStringAsClaimed(profile, result)
        /\ (/\ ~Truthy(profile.lineage_text)
            /\ result # None
            /\ \A i \in DOMAIN get_all_parents(profile) :
                  /\ ~HasDoubleSpace(get_all_parents(profile)[i])
                  /\ ~EndsWithSpace(get_all_parents(profile)[i]))
              => split(result[1], DoubleSpace) = get_all_parents(profile)

\* C23 witness: three parents, one beginning with a space and one empty, are
\* joined and split back
C23_Witness ==
    /\ call.op = "get_parent_string"
    /\ profile.lineage_text = None
    /\ get_all_parents(profile) = <<<<"A">>, <<" ", "B">>, <<>>>>
    /\ result = Some(<<"A", " ", " ", " ", "B", " ", " ">>)
    /\ split(result[1], DoubleSpace) = get_all_parents(profile)

-----------------------------------------------------------------------------
(* The three tokenizers of a genetics string *)

\* longest genetics string tokenized
MaxTokenLen == 6

\* a letter, the space and the cross sign
TokenChars == {"a", " ", "x"}

\* genetics strings: the short texts, and two with the upper-case cross sign
GeneticsStrings ==
    SeqsUpTo(TokenChars, MaxTokenLen)
    \cup {<<"a", " ", "X", " ", "b">>,
          <<"a", " ", "X", " ", "b", " ", "x", " ", "c">>}

InitTokens ==
    /\ profile = GeneticsProfile
    /\ input = <<>>
    /\ call = NoCall
    /\ result = None

\* parse_genetics_line(line)["parents"] of a line with a name, a tab and g
ParentsOfLine(g) ==
    /\ call = NoCall
    /\ input' = g
    /\ result' = get_default(parse_genetics_line(<<"s", "\t">> \o g),
                             "parents", <<>>)
    /\ call' = [op |-> "parse_genetics_line"]
    /\ UNCHANGED profile

\* GeneticsProfile.from_simple(g).get_all_parents()
ParentsOfSimple(g) ==
    /\ call = NoCall
    /\ input' = g
    /\ profile' = from_simple(g)
    /\ result' = get_all_parents(from_simple(g))
    /\ call' = [op |-> "from_simple"]

\* Strain(name, genetics=g).get_parents()
ParentsOfStrain(g) ==
    /\ call = NoCall
    /\ input' = g
    /\ result' = get_parents([Strain(<<"s">>) EXCEPT !.genetics = Some(g)])
    /\ call' = [op |-> "get_parents"]
    /\ UNCHANGED profile

NextTokens ==
    \/ \E g \in GeneticsStrings : ParentsOfLine(g)
    \/ \E g \in GeneticsStrings : ParentsOfSimple(g)
    \/ \E g \in GeneticsStrings : ParentsOfStrain(g)

SpecTokens == InitTokens /\ [][NextTokens]_vars

-----------------------------------------------------------------------------
(* Claims about the tokenizers *)

\* the three parent lists of a genetics string
LineParents(g) == parse_genetics_line(<<"s", "\t">> \o g).parents

SimpleParents(g) == get_all_parents(from_simple(g))

StrainParents(g) == get_parents([Strain(<<"s">>) EXCEPT !.genetics = Some(g)])

\* g is trimmed and not empty
Trimmed(g) == g # <<>> /\ strip(g) = g

\* g holds one of the three separators
HasSeparator(g) ==
    contains(g, DoubleSpace) \/ contains(g, LowerX) \/ contains(g, UpperX)

\* a token list without the empty tokens among its first two
PrimariesSkipped(tokens) ==
    SelectSeq(SubSeq(tokens, 1, 2), LAMBDA t : t # <<>>)
        \o SubSeq(tokens, 3, Len(tokens))

\* C24 as stated: for every trimmed non-empty genetics string the parents of
\* parse_genetics_line, from_simple(g).get_all_parents() and get_parents()
\* of a Strain without profile are the same ordered list.
C24_TokenizersAgree ==
    (call.op \in {"parse_genetics_line", "from_simple", "get_parents"}
        /\ Trimmed(input)) =>
        /\ result = LineParents(input)
        /\ result = SimpleParents(input)
        /\ result = StrainParents(input)

\* C24 amended: for a trimmed genetics string that holds a separator the
\* parents of parse_genetics_line and get_parents() of a Strain without
\* profile are the same ordered list, and from_simple(g).get_all_parents()
\* is that list without the empty tokens among its first two; for a trimmed
\* non-empty string without separator parse_genetics_line gives the one
\* parent g and the other two give no parent.
C24_TokenizersRelated ==
    (call.op \in {"parse_genetics_line", "from_simple", "get_parents"}
        /\ Trimmed(input)) =>
        /\ result = CASE call.op = "parse_genetics_line" -> LineParents(input)
                      [] call.op = "from_simple" -> SimpleParents(input)
                      [] call.op = "get_parents" -> StrainParents(input)
        /\ IF HasSeparator(input)
           THEN /\ LineParents(input) = StrainParents(input)
                /\ SimpleParents(input) = PrimariesSkipped(LineParents(input))
           ELSE /\ LineParents(input) = <<input>>
                /\ SimpleParents(input) = <<>>
                /\ StrainParents(input) = <<>>

\* C24 witness: "a    a" has an empty second token, which from_simple's
\* profile does not list
C24_Witness ==
    /\ call.op = "from_simple"
    /\ input = <<"a", " ", " ", " ", " ", "a">>
    /\ result = <<<<"a">>, <<"a">>>>
    /\ LineParents(input) = <<<<"a">>, <<>>, <<"a">>>>
    /\ StrainParents(input) = LineParents(input)

\* C24 witness of agreement: the three lists of "a x a" are the same
C24_AgreeWitness ==
    /\ call.op = "get_parents"
    /\ input = <<"a", " ", "x", " ", "a">>
    /\ result = <<<<"a">>, <<"a">>>>
    /\ LineParents(input) = result
    /\ SimpleParents(input) = result

-----------------------------------------------------------------------------
(* Reference data (src/cdes/reference.py): the terpene library, the        *)
(* terpene colors and the cannabinoid library, each held in a module       *)
(* global once loaded.  In SpecReference the variable input holds the      *)
(* module's globals, call the last call with what it did, result its       *)
(* outcome, and profile the history since the last clear_cache: per        *)
(* resource the loads performed, the loads that stored a value, and        *)
(* whether some call passed use_cache=False.                               *)

AttributeError == [raises |-> "AttributeError"]

\* urlopen or json.loads failed
URLError == [raises |-> "URLError"]

Resources == {"library", "colors", "cannabinoids"}

\* Terpene.from_dict(data); the documents tried carry no effects and no
\* boiling point
Terpene_from_dict(data) ==
    IF ~ ({"id", "name", "casNumber", "pubchemId", "molecularFormula",
           "category"} \subseteq DOMAIN data)
    THEN KeyError
    ELSE [id |-> data["id"], name |-> data["name"],
          casNumber |-> data["casNumber"], pubchemId |-> data["pubchemId"],
          molecularFormula |-> data["molecularFormula"],
          category |-> data["category"],
          aroma |-> get_default(data, "aroma", <<>>),
          effects |-> get_default(data, "effects", <<>>),
          boilingPoint |-> None,
          notes |-> IF "notes" \in DOMAIN data THEN Some(data["notes"])
                    ELSE None]

\* TerpeneLibrary.from_dict(data)
TerpeneLibrary_from_dict(data) ==
    LET listed   == get_default(data, "terpenes", <<>>)
        terpenes == [i \in 1..Len(listed) |-> Terpene_from_dict(listed[i])]
    IN  IF \E i \in 1..Len(terpenes) : IsException(terpenes[i])
        THEN KeyError
        ELSE IF ~ ({"version", "lastUpdated", "license"} \subseteq DOMAIN data)
        THEN KeyError
        ELSE [version |-> data["version"],
              lastUpdated |-> data["lastUpdated"],
              license |-> data["license"], terpenes |-> terpenes]

\* TerpeneLibrary.get_by_id(terpene_id)
RECURSIVE get_by_id(_, _)
get_by_id(terpenes, terpene_id) ==
    IF terpenes = <<>> THEN None
    ELSE IF Head(terpenes).id = terpene_id THEN Some(Head(terpenes))
    ELSE get_by_id(Tail(terpenes), terpene_id)

\* the methods class TerpeneLibrary defines
TerpeneLibraryMethods == {"from_dict", "get_by_id"}

\* ColorRef.from_dict(data)
ColorRef_from_dict(data) ==
    LET rgb == get_default(data, "rgb", <<>>)
    IN  [hex |-> get_default(data, "hex", <<"#", "0", "0", "0", "0", "0", "0">>),
         r |-> get_default(rgb, "r", 0), g |-> get_default(rgb, "g", 0),
         b |-> get_default(rgb, "b", 0)]

\* the dict comprehension of get_terpene_colors
ColorsOf(data) ==
    LET listed == get_default(data, "terpenes", <<>>)
    IN  IF \E i \in 1..Len(listed) :
               ~ ({"id", "color"} \subseteq DOMAIN listed[i])
        THEN KeyError
        ELSE [id \in {listed[i]["id"] : i \in 1..Len(listed)} |->
                 ColorRef_from_dict(
                     listed[CHOOSE last \in 1..Len(listed) :
                                /\ listed[last]["id"] = id
                                /\ \A i \in (last + 1)..Len(listed) :
                                       listed[i]["id"] # id]["color"])]

\* what loading a resource stores in its global (wrapped as a returned
\* Optional), or the exception it raises: fetched is what _fetch_json (or
\* the bundled file) gave
Loaded(resource, fetched) ==
    IF IsException(fetched) THEN fetched
    ELSE IF resource = "library"
         THEN LET library == TerpeneLibrary_from_dict(fetched)
              IN  IF IsException(library) THEN library
                  ELSE Returned(Some(library))
    ELSE IF resource = "colors"
         THEN LET colors == ColorsOf(fetched)
              IN  IF IsException(colors) THEN colors
                  ELSE Returned(Some(colors))
    ELSE fetched

Myrcene ==
    [id |-> "terpene:myrcene", name |-> "Myrcene", casNumber |-> "123-35-3",
     pubchemId |-> 31253, molecularFormula |-> "C10H16",
     category |-> "monoterpene"]

Limonene ==
    [id |-> "terpene:limonene", name |-> "Limonene", casNumber |-> "138-86-3",
     pubchemId |-> 22311, molecularFormula |-> "C10H16",
     category |-> "monoterpene", notes |-> "citrus"]

\* what a fetch of the terpene library may give
LibraryDocuments ==
    { [version |-> "1.0", lastUpdated |-> "2024", license |-> "CC0",
       terpenes |-> <<Myrcene>>],
      [version |-> "1.1", lastUpdated |-> "2025", license |-> "CC0",
       terpenes |-> <<Myrcene, Limonene>>],
      [version |-> "1.2", lastUpdated |-> "2025",
       terpenes |-> <<Myrcene>>],
      URLError }

\* what a fetch of the terpene colors may give
ColorDocuments ==
    { [terpenes |-> <<[id |-> "terpene:myrcene",
                        color |-> [hex |-> <<"#", "8", "B", "4", "5", "1", "3">>,
                                   rgb |-> [r |-> 139, g |-> 69, b |-> 19]]]>>],
      [version |-> "1.0"],
      [terpenes |-> <<[id |-> "terpene:myrcene"]>>],
      URLError }

\* what a fetch of the cannabinoid library may give: a JSON object, JSON
\* null (which json.loads gives as None), or a failure; what the function
\* stores and returns is therefore an Optional
CannabinoidDocuments ==
    { Returned(Some([cannabinoids |->
                        <<[id |-> "cannabinoid:thc", name |-> "THC"]>>])),
      Returned(Some([cannabinoids |-> <<>>])),
      Returned(None),
      URLError }

Documents(resource) ==
    IF resource = "library" THEN LibraryDocuments
    ELSE IF resource = "colors" THEN ColorDocuments
    ELSE CannabinoidDocuments

CasNumbers == {"138-86-3", "0-00-0"}

TerpeneIds == {"terpene:limonene", "terpene:none"}

MaxLoads == 3

\* the loads performed since the last clear_cache
LoadsSinceCleared ==
    profile.loads["library"] + profile.loads["colors"]
        + profile.loads["cannabinoids"]

InitReference ==
    /\ input = [r \in Resources |-> None]
    /\ profile = [loads |-> [r \in Resources |-> 0],
                  stored |-> [r \in Resources |-> 0],
                  bypassed |-> [r \in Resources |-> FALSE]]
    /\ call = NoCall
    /\ result = None

\* a cache test that forgets the caller's use_cache
served_from_cache_whatever_asked(globals, resource, use_cache) ==
    globals[resource] # None

\* if use_cache and _cached_<resource> is not None
served_from_cache(globals, resource, use_cache) ==
    use_cache /\ globals[resource] # None

\* return _cached_<resource>: the value of the global (for the cannabinoid
\* library, whose global may hold None after a load, the Optional itself)
Cached(globals, resource) ==
    IF resource = "cannabinoids" THEN Returned(globals[resource])
    ELSE Returned(globals[resource][1])

\* the common body of get_terpene_library, get_terpene_colors and
\* get_cannabinoid_library: op is the function called
GetResource(op, resource, use_cache, fetched) ==
    LET cached == served_from_cache(input, resource, use_cache)
        loaded == Loaded(resource, fetched)
    IN  /\ ~ cached => LoadsSinceCleared < MaxLoads
        /\ input' = IF cached \/ IsException(loaded) THEN input
                    ELSE [input EXCEPT ![resource] = loaded.returns]
        /\ result' = IF cached THEN Cached(input, resource)
                     ELSE IF IsException(loaded) THEN loaded
                     ELSE Cached([input EXCEPT ![resource] = loaded.returns],
                                 resource)
        /\ profile' =
               [loads |-> [profile.loads EXCEPT ![resource] =
                               IF cached THEN @ ELSE @ + 1],
                stored |-> [profile.stored EXCEPT ![resource] =
                               IF cached \/ IsException(loaded)
                                  \/ loaded.returns = None
                               THEN @ ELSE @ + 1],
                bypassed |-> [profile.bypassed EXCEPT ![resource] =
                                 @ \/ ~ use_cache]]
        /\ call' = [op |-> op, resource |-> resource,
                    use_cache |-> use_cache, loaded |-> ~ cached,
                    before |-> input[resource]]

\* get_terpene_library(use_cache)
GetTerpeneLibrary(use_cache, fetched) ==
    GetResource("get_terpene_library", "library", use_cache, fetched)

\* get_terpene_colors(use_cache)
GetTerpeneColors(use_cache, fetched) ==
    GetResource("get_terpene_colors", "colors", use_cache, fetched)

\* get_cannabinoid_library(use_cache)
GetCannabinoidLibrary(use_cache, fetched) ==
    GetResource("get_cannabinoid_library", "cannabinoids", use_cache, fetched)

\* clear_cache()
ClearCache ==
    /\ input' = [r \in Resources |-> None]
    /\ profile' = [loads |-> [r \in Resources |-> 0],
                   stored |-> [r \in Resources |-> 0],
                   bypassed |-> [r \in Resources |-> FALSE]]
    /\ call' = [op |-> "clear_cache"]
    /\ result' = None

\* library.<method>(argument) on the library get_terpene_library() gave
LookUp(method, library, argument) ==
    IF method \notin TerpeneLibraryMethods THEN AttributeError
    ELSE Returned(get_by_id(library.terpenes, argument))

\* get_terpene_by_id / get_terpene_by_cas: library = get_terpene_library(),
\* then library.<method>(argument)
GetTerpeneBy(op, method, argument, fetched) ==
    LET cached  == served_from_cache(input, "library", TRUE)
        loaded  == Loaded("library", fetched)
    IN  /\ ~ cached => LoadsSinceCleared < MaxLoads
        /\ input' = IF cached \/ IsException(loaded) THEN input
                    ELSE [input EXCEPT !["library"] = loaded.returns]
        /\ result' = IF cached THEN LookUp(method, input["library"][1], argument)
                     ELSE IF IsException(loaded) THEN loaded
                     ELSE LookUp(method, loaded.returns[1], argument)
        /\ profile' =
               [profile EXCEPT
                   !.loads["library"] = IF cached THEN @ ELSE @ + 1,
                   !.stored["library"] =
                       IF cached \/ IsException(loaded) THEN @ ELSE @ + 1]
        /\ call' = [op |-> op, resource |-> "library", use_cache |-> TRUE,
                    loaded |-> ~ cached, before |-> input["library"],
                    argument |-> argument]

\* get_terpene_by_id(terpene_id)
GetTerpeneById(terpene_id, fetched) ==
    GetTerpeneBy("get_terpene_by_id", "get_by_id", terpene_id, fetched)

\* get_terpene_by_cas(cas_number)
GetTerpeneByCas(cas_number, fetched) ==
    GetTerpeneBy("get_terpene_by_cas", "get_by_cas", cas_number, fetched)

NextReference ==
    \/ \E use_cache \in BOOLEAN, fetched \in LibraryDocuments :
           GetTerpeneLibrary(use_cache, fetched)
    \/ \E use_cache \in BOOLEAN, fetched \in ColorDocuments :
           GetTerpeneColors(use_cache, fetched)
    \/ \E use_cache \in BOOLEAN, fetched \in CannabinoidDocuments :
           GetCannabinoidLibrary(use_cache, fetched)
    \/ ClearCache
    \/ \E terpene_id \in TerpeneIds, fetched \in LibraryDocuments :
           GetTerpeneById(terpene_id, fetched)
    \/ \E cas_number \in CasNumbers, fetched \in LibraryDocuments :
           GetTerpeneByCas(cas_number, fetched)

SpecReference == InitReference /\ [][NextReference]_vars

-----------------------------------------------------------------------------
(* Claims about the reference data *)

\* the first terpene of a list with a CAS number
RECURSIVE FirstWithCas(_, _)
FirstWithCas(terpenes, cas_number) ==
    IF terpenes = <<>> THEN None
    ELSE IF Head(terpenes).casNumber = cas_number THEN Some(Head(terpenes))
    ELSE FirstWithCas(Tail(terpenes), cas_number)

\* C25: get_terpene_by_cas(cas_number), once the library is loaded, returns
\* the terpene of the library whose CAS number is cas_number, and None
\* without raising when the library has none
C25_TerpeneByCas ==
    (call.op = "get_terpene_by_cas" /\ input["library"] # None)
        => result = Returned(FirstWithCas(input["library"][1].terpenes,
                                          call.argument))

\* C25: what the code does instead: with the library loaded every
\* get_terpene_by_cas raises AttributeError, while get_terpene_by_id returns
\* the terpene with the id or None
C25_ByCasAlwaysRaises ==
    /\ (call.op = "get_terpene_by_cas" /\ input["library"] # None)
           => result = AttributeError
    /\ (call.op = "get_terpene_by_id" /\ input["library"] # None)
           => result = Returned(get_by_id(input["library"][1].terpenes,
                                          call.argument))

\* the three functions that hold a resource in a module global
CachedGetters ==
    {"get_terpene_library", "get_terpene_colors", "get_cannabinoid_library"}

\* a call with use_cache=True on a populated cache returns the cached value
\* without loading
ServedWithoutLoading ==
    (call.op \in CachedGetters /\ call.use_cache /\ call.before # None)
        => /\ ~ call.loaded
           /\ input[call.resource] = call.before
           /\ result = Cached(input, call.resource)

\* a call on an empty cache or with use_cache=False loads, and what it
\* returns is what the cache then holds
LoadedAndOverwritten ==
    (call.op \in CachedGetters /\ (~ call.use_cache \/ call.before = None))
        => /\ call.loaded
           /\ ~ IsException(result) => result = Cached(input, call.resource)

\* clear_cache empties the three caches
ClearedAll ==
    call.op = "clear_cache" => \A r \in Resources : input[r] = None

\* a load that fails leaves the cache as it was
FailedLoadKeepsCache ==
    (call.op \in CachedGetters /\ IsException(result))
        => input[call.resource] = call.before

\* C26 as stated: a cached call is served without loading, any other call
\* loads and overwrites, clear_cache empties every cache, a failed load
\* leaves the cache as it was, and since the last clear_cache the calls of a
\* resource that all passed use_cache=True performed at most one load
C26_CacheProtocol ==
    /\ ServedWithoutLoading
    /\ LoadedAndOverwritten
    /\ ClearedAll
    /\ FailedLoadKeepsCache
    /\ \A r \in Resources : ~ profile.bypassed[r] => profile.loads[r] <= 1

\* C26 amended: as above, but what happens at most once per resource since
\* the last clear_cache, among calls that all passed use_cache=True, is a
\* load that stores a value; a load that fails or that yields None leaves
\* the cache empty and the next call loads again
C26_CacheProtocolStoresOnce ==
    /\ ServedWithoutLoading
    /\ LoadedAndOverwritten
    /\ ClearedAll
    /\ FailedLoadKeepsCache
    /\ \A r \in Resources : ~ profile.bypassed[r] => profile.stored[r] <= 1
    /\ \A r \in Resources :
           (~ profile.bypassed[r] /\ profile.stored[r] = 0) => input[r] = None

\* C26: a resource whose first load failed, whose second load stored a
\* value, and which was then served from the cache
C26_Witness ==
    /\ call.op \in CachedGetters
    /\ call.use_cache /\ ~ call.loaded
    /\ ~ profile.bypassed[call.resource]
    /\ profile.loads[call.resource] = 2
    /\ profile.stored[call.resource] = 1

\* C26: a load with use_cache=False that replaced a populated cache
C26_OverwriteWitness ==
    /\ call.op \in CachedGetters
    /\ ~ call.use_cache /\ call.before # None
    /\ ~ IsException(result)
    /\ input[call.resource] # call.before

\* C26: a load that failed on a populated cache
C26_FailedLoadWitness ==
    /\ call.op \in CachedGetters
    /\ ~ call.use_cache /\ call.before # None
    /\ IsException(result)

\* the parent names a profile stores, set or not
StoredParents(self) ==
    (IF self.parent_1 = None THEN <<>> ELSE <<self.parent_1[1]>>)
        \o (IF self.parent_2 = None THEN <<>> ELSE <<self.parent_2[1]>>)
        \o self.additional_parents

\* C27: the profile from_simple returns is a polyhybrid exactly when
\* get_all_parents() names three or more parents, and no parent name it
\* stores in parent_1, parent_2 or additional_parents is the empty string
C27_PolyhybridIffThreeNamed ==
    call.op = "from_simple"
        => /\ profile.breeding_technique = "polyhybrid" <=> Len(result) >= 3
           /\ \A i \in 1..Len(StoredParents(profile)) :
                  StoredParents(profile)[i] # <<>>

\* C27: what the code does instead: the profile is a polyhybrid exactly
\* when the split gave more than two tokens, empty ones included, and the
\* first and the last token are never empty
C27_PolyhybridIffThreeTokens ==
    call.op = "from_simple"
        => LET stored == StoredParents(profile)
           IN  /\ profile.breeding_technique = "polyhybrid"
                      <=> Len(stored) >= 3
               /\ stored # <<>>
                      => stored[1] # <<>> /\ stored[Len(stored)] # <<>>

\* C27: "a    a" is stored as a polyhybrid of "a", "" and "a", of which
\* get_all_parents() names two
C27_EmptyTokenStored ==
    /\ call.op = "from_simple"
    /\ input = <<"a", " ", " ", " ", " ", "a">>
    /\ profile.breeding_technique = "polyhybrid"
    /\ profile.parent_2 = Some(<<>>)
    /\ Len(result) = 2

-----------------------------------------------------------------------------
(* Sources merged into an empty list, with the candidates added kept: in   *)
(* SpecMerge the variable input is the list of the candidates passed to    *)
(* add_source so far.                                                      *)

\* number of add_source calls
MaxAdded == 3

InitMerge ==
    /\ profile = GeneticsProfile
    /\ input = <<>>
    /\ call = NoCall
    /\ result = None

\* profile.add_source(c)
AddSourceAgain(c) ==
    /\ Len(input) < MaxAdded
    /\ profile' = add_source(profile, c)
    /\ input' = Append(input, c)
    /\ call' = [op |-> "add_source", source |-> c, before |-> profile]
    /\ result' = None

NextMerge == \E c \in Candidates : AddSourceAgain(c)

SpecMerge == InitMerge /\ [][NextMerge]_vars

\* the retrieved_at values of the dated candidates added under a name
DatesAdded(name) ==
    {input[i].retrieved_at[1] :
        i \in {j \in 1..Len(input) : /\ input[j].source_name = name
                                     /\ input[j].retrieved_at # None}}

\* the candidates added all carry one name
SameName(name) == \A i \in 1..Len(input) : input[i].source_name = name

\* C28: after add_source calls that all carry the same source_name, on a
\* sources list that was empty, the one stored entry's retrieved_at is the
\* latest retrieved_at among the dated candidates added, and is absent when
\* none was dated, in whatever order the candidates came
C28_LatestDateKept ==
    \A name \in SourceNames :
        (input # <<>> /\ SameName(name))
            => /\ Len(profile.sources) = 1
               /\ profile.sources[1].source_name = name
               /\ IF DatesAdded(name) = {}
                  THEN profile.sources[1].retrieved_at = None
                  ELSE /\ profile.sources[1].retrieved_at # None
                       /\ profile.sources[1].retrieved_at[1] \in DatesAdded(name)
                       /\ \A t \in DatesAdded(name) :
                              t <= profile.sources[1].retrieved_at[1]

\* C28 witness: three candidates of one name, the latest added first and an
\* undated one last
C28_Witness ==
    /\ Len(input) = 3
    /\ SameName("Leafly")
    /\ input[1].retrieved_at = Some(2)
    /\ input[2].retrieved_at = Some(1)
    /\ input[3].retrieved_at = None
    /\ profile.sources[1].retrieved_at = Some(2)

\* C28 witness: the latest candidate added last, after an undated one
C28_AscendingWitness ==
    /\ Len(input) = 3
    /\ SameName("Leafly")
    /\ input[1].retrieved_at = None
    /\ input[2].retrieved_at = Some(1)
    /\ input[3].retrieved_at = Some(2)
    /\ profile.sources[1].retrieved_at = Some(2)

-----------------------------------------------------------------------------
(* Claims about parsing a base name again *)

IsPrefixOf(prefix, text) ==
    Len(prefix) <= Len(text) /\ SubSeq(text, 1, Len(prefix)) = prefix

EndsWithDigit(text) == text # <<>> /\ IsDigit(text[Len(text)])

\* the base name is a prefix of the trimmed name, and is not empty when the
\* name has a character that is not whitespace
BaseIsPrefix ==
    /\ IsPrefixOf(result.base_name, strip(call.name))
    /\ strip(call.name) # <<>> => result.base_name # <<>>

C29_FixedWitness ==
    /\ call.op = "parse_strain_name"
    /\ call.name = <<" ", "a", " ", "#", "1">>
    /\ result = StrainName(<<"a">>, Some(1))
    /\ parse_strain_name(result.base_name) = StrainName(<<"a">>, None)

-----------------------------------------------------------------------------
(* Profiles as objects.  GeneticsProfile.to_dict and from_dict pass the    *)
(* lists and dicts of a profile on by reference or build new ones; the     *)
(* other fields hold immutable values (str, int, bool, enum, date), and    *)
(* lineage and phenotypes are rebuilt element by element as sources is.    *)
(* In SpecAlias the variable input is the heap, a list of the lists and    *)
(* dicts allocated so far, each known by its position; profile holds the   *)
(* profile P, the map to_dict returned (data), the profile from_dict       *)
(* built (Q), each as a function from field to position, the number of     *)
(* mutations made, and the content P was constructed with (built).         *)

\* the fields of GeneticsProfile that hold a list or a dict, in the order
\* from_dict evaluates them
FieldOrder ==
    <<"additional_parents", "sources", "awards", "cup_wins",
      "genetic_markers", "metadata", "tags">>

Containers == Values(FieldOrder)

ListFields == {"additional_parents", "awards", "cup_wins", "tags"}

DictFields == {"genetic_markers", "metadata"}

\* number of mutations after from_dict
MaxMutations == 2

\* a non-empty content of a field
Filled(f) ==
    IF f \in DictFields THEN [origin |-> "import"]
    ELSE IF f = "sources" THEN <<GeneticsSource("Leafly", Some(1), None)>>
    ELSE <<"x">>

\* the content of the containers of an object
ValueOf(heap, object) == [f \in Containers |-> heap[object[f]]]

InitAlias ==
    /\ \E filled \in SUBSET Containers :
           /\ input = [i \in 1..Len(FieldOrder) |->
                          IF FieldOrder[i] \in filled
                          THEN Filled(FieldOrder[i]) ELSE <<>>]
           /\ profile = [P |-> [f \in Containers |-> index(FieldOrder, f)],
                         data |-> None, Q |-> None, mutations |-> 0,
                         built |-> [f \in Containers |->
                                       IF f \in filled THEN Filled(f)
                                       ELSE <<>>]]
    /\ call = NoCall
    /\ result = None

\* self.to_dict(): the keys written and the object each holds; the list
\* under "sources" is new, the other lists and dicts are self's own
to_dict_objects(heap, self) ==
    [f \in {g \in Containers : heap[self[g]] # <<>>} |->
        IF f = "sources" THEN Len(heap) + 1 ELSE self[f]]

\* the heap after self.to_dict()
to_dict_heap(heap, self) ==
    IF heap[self["sources"]] # <<>>
    THEN Append(heap, [i \in 1..Len(heap[self["sources"]]) |->
                          GeneticsSource_to_dict(heap[self["sources"]][i])])
    ELSE heap

\* the fields for which from_dict(data) makes a new list or dict: sources
\* always, the others when their key is absent (data.get(key, []))
MadeNew(data) == {f \in Containers : f = "sources" \/ f \notin DOMAIN data}

\* the position among the new objects of the one made for field f
RankNew(data, f) ==
    Cardinality({i \in 1..index(FieldOrder, f) : FieldOrder[i] \in MadeNew(data)})

\* from_dict(data): the object each field of the new profile holds
from_dict_objects(heap, data) ==
    [f \in Containers |->
        IF f \in MadeNew(data) THEN Len(heap) + RankNew(data, f)
        ELSE data[f]]

\* the heap after from_dict(data)
from_dict_heap(heap, data) ==
    heap \o [k \in 1..Cardinality(MadeNew(data)) |->
                LET f == CHOOSE g \in MadeNew(data) : RankNew(data, g) = k
                IN  IF f = "sources" /\ f \in DOMAIN data
                    THEN [i \in 1..Len(heap[data[f]]) |->
                             GeneticsSource_from_dict(heap[data[f]][i])]
                    ELSE <<>>]

\* data = P.to_dict()
ToDictOf ==
    /\ profile.data = None
    /\ profile' = [profile EXCEPT
                      !.data = Some(to_dict_objects(input, profile.P))]
    /\ input' = to_dict_heap(input, profile.P)
    /\ call' = [op |-> "to_dict"]
    /\ UNCHANGED result

\* Q = GeneticsProfile.from_dict(data)
FromDictOf ==
    /\ profile.data # None /\ profile.Q = None
    /\ profile' = [profile EXCEPT
                      !.Q = Some(from_dict_objects(input, profile.data[1]))]
    /\ input' = from_dict_heap(input, profile.data[1])
    /\ call' = [op |-> "from_dict"]
    /\ UNCHANGED result

\* Q.<field>.append(item)
AppendTo(f, item) ==
    /\ profile.Q # None /\ profile.mutations < MaxMutations
    /\ input' = [input EXCEPT ![profile.Q[1][f]] = Append(@, item)]
    /\ profile' = [profile EXCEPT !.mutations = @ + 1]
    /\ call' = [op |-> "append", field |-> f]
    /\ UNCHANGED result

\* Q.<field>[key] = value
WriteTo(f, key, value) ==
    /\ profile.Q # None /\ profile.mutations < MaxMutations
    /\ LET old == input[profile.Q[1][f]]
       IN  input' = [input EXCEPT ![profile.Q[1][f]] =
                        [k \in DOMAIN old \cup {key} |->
                            IF k = key THEN value ELSE old[k]]]
    /\ profile' = [profile EXCEPT !.mutations = @ + 1]
    /\ call' = [op |-> "setitem", field |-> f]
    /\ UNCHANGED result

\* Q.add_source(source)
AddSourceTo(source) ==
    /\ profile.Q # None /\ profile.mutations < MaxMutations
    /\ input' = [input EXCEPT ![profile.Q[1]["sources"]] =
                     add_source([sources |-> @], source).sources]
    /\ profile' = [profile EXCEPT !.mutations = @ + 1]
    /\ call' = [op |-> "add_source", field |-> "sources"]
    /\ UNCHANGED result

\* data[<key>].append(item), on the map to_dict returned
AppendToMap(f, item) ==
    /\ profile.data # None /\ profile.mutations < MaxMutations
    /\ f \in DOMAIN profile.data[1]
    /\ input' = [input EXCEPT ![profile.data[1][f]] = Append(@, item)]
    /\ profile' = [profile EXCEPT !.mutations = @ + 1]
    /\ call' = [op |-> "append_to_map", field |-> f]
    /\ UNCHANGED result

NextAlias ==
    \/ ToDictOf
    \/ FromDictOf
    \/ \E f \in ListFields : AppendTo(f, "y")
    \/ \E f \in DictFields : WriteTo(f, "note", "edited")
    \/ \E t \in Timestamps : AddSourceTo(GeneticsSource("Leafly", t, None))
    \/ \E f \in ListFields : AppendToMap(f, "z")

SpecAlias == InitAlias /\ [][NextAlias]_vars

-----------------------------------------------------------------------------
(* Claims about what crosses to_dict and from_dict *)

\* the objects an object's fields hold
Held(object) == {object[f] : f \in DOMAIN object}

\* C30: the map to_dict returned and the profile from_dict built share no
\* list or dict with the profile or the map they came from, so whatever is
\* later done to Q (or to the map), P holds what it was constructed with
C30_NothingShared ==
    /\ profile.data # None
           => Held(profile.data[1]) \cap Held(profile.P) = {}
    /\ profile.Q # None
           => Held(profile.Q[1])
                  \cap (Held(profile.P) \cup Held(profile.data[1])) = {}
    /\ ValueOf(input, profile.P) = profile.built

\* C30: what the code does instead: only sources is rebuilt; every other
\* list or dict of P that is not empty is the one the map holds and the one
\* Q holds, and P changes with Q exactly there
C30_NonEmptyContainersShared ==
    /\ profile.data # None
           => \A f \in DOMAIN profile.data[1] :
                  (profile.data[1][f] = profile.P[f]) <=> f # "sources"
    /\ profile.Q # None
           => \A f \in Containers :
                  /\ (profile.Q[1][f] = profile.P[f])
                         <=> (f # "sources" /\ f \in DOMAIN profile.data[1])
                  /\ profile.Q[1][f] # profile.P[f]
                         => input[profile.P[f]] = profile.built[f]

\* C30: Q.additional_parents.append("y") after the round trip has changed
\* P.additional_parents
C30_MutationReachesP ==
    /\ call = [op |-> "append", field |-> "additional_parents"]
    /\ profile.built["additional_parents"] = <<"x">>
    /\ input[profile.P["additional_parents"]] = <<"x", "y">>

\* C30: Q.add_source(...) after the round trip has left P.sources alone
C30_SourcesNotShared ==
    /\ call = [op |-> "add_source", field |-> "sources"]
    /\ input[profile.Q[1]["sources"]]
           = <<GeneticsSource("Leafly", Some(2), None)>>
    /\ input[profile.P["sources"]]
           = <<GeneticsSource("Leafly", Some(1), None)>>

====
